---- MODULE Spec2Model ----
(***************************************************************************)
(* Polygon hazard sampling and risk consolidation engine of                *)
(* climate_hazards_analysis_v2 (granular_analysis.py, hazard_config.py),   *)
(* with the add_facility view of views.py that calls the grid generator.   *)
(*                                                                         *)
(* Units.  Coordinates are integers counting 1/111000 of a degree, so that *)
(* grid_spacing_meters * degrees_per_meter is grid_spacing_meters units    *)
(* and eps_degrees is 2 * grid_spacing_meters units.  Hazard values are    *)
(* integers counting tenths (0.5 m is 5, 1.2 is 12): every threshold of    *)
(* the source is a multiple of 0.1 and the classifiers only compare.       *)
(* Python's None is the empty tuple <<>>, a number v is <<v>>.             *)
(* Areas are integers counting millionths of a km2 (one square unit).     *)
(* A raster band value is Number(v) or NaN; a raster file is a record of   *)
(* what the sampler can observe of it (exists, readable, nodata, cells).   *)
(***************************************************************************)
EXTENDS Integers, Sequences, FiniteSets, TLC

VARIABLES
    polygon_geometry,     \* generate_sample_grid: the polygon argument
    grid_calls,           \* generate_sample_grid: the calls made on the polygon, in order
    classifier,           \* which classifier ran last ("none" before any call)
    value,                \* classifier argument: the raw value
    hazard_type,          \* classifier argument: hazard_type / hazard_key
    risk,                 \* classifier result
    analyzed_points,      \* consolidate_points_to_clusters: the list of point dicts
    grid_spacing_meters,  \* consolidate_points_to_clusters: the spacing argument
    consolidated,         \* consolidate_points_to_clusters: <<>> before the call, <<result>> after
    raster_files,         \* the file system: what is stored under each raster path
    rasterio_installed,   \* whether 'import rasterio' succeeds
    open_datasets,        \* the raster handles that are open (opened and not yet closed)
    frames,               \* per analysis request: the arguments and locals of its calls
    post_data,            \* add_facility: data, the decoded body of the POST request
    facility_data,        \* add_facility: session['climate_hazards_v2_facility_data']
    response,             \* add_facility: <<>> before the call, <<the JSON answer>> after
    results,              \* show_results: <<>> before the call, <<the rows of the table>> after
    asset,                \* models.Asset: the fields of the instance in memory
    saved_asset,          \* models.Asset: <<>> before the first save, <<the stored row>> after
    asset_op              \* models.Asset: the last operation on the instance and what it returned

vars == <<polygon_geometry, grid_calls, classifier, value, hazard_type, risk,
          analyzed_points, grid_spacing_meters, consolidated,
          raster_files, rasterio_installed, open_datasets, frames,
          post_data, facility_data, response, results,
          asset, saved_asset, asset_op>>

grid_vars == <<polygon_geometry, grid_calls>>
classify_vars == <<classifier, value, hazard_type, risk>>
cluster_vars == <<analyzed_points, grid_spacing_meters, consolidated>>
sampler_vars == <<raster_files, rasterio_installed, open_datasets, frames>>
facility_vars == <<post_data, facility_data, response, results>>
asset_vars == <<asset, saved_asset, asset_op>>

\* ------------------------------------------------------------------ bounds

\* Polygon sides are multiples of 50 units, up to 50 * MaxSide.
MaxSide == 3
\* Calls of generate_sample_grid recorded on one polygon.
MaxCalls == 2

\* ------------------------------------------------------------- helpers

Min2(a, b) == IF a <= b THEN a ELSE b
Max2(a, b) == IF a >= b THEN a ELSE b

RECURSIVE SetMin(_)
SetMin(S) == LET x == CHOOSE y \in S : TRUE
             IN IF S = {x} THEN x ELSE Min2(x, SetMin(S \ {x}))

RECURSIVE SetMax(_)
SetMax(S) == LET x == CHOOSE y \in S : TRUE
             IN IF S = {x} THEN x ELSE Max2(x, SetMax(S \ {x}))

Range(s) == {s[i] : i \in DOMAIN s}

\* ------------------------------------------------- polygon geometry (shapely)

\* A ring is a sequence of vertices <<x, y>> (x = longitude, y = latitude),
\* closed implicitly; a polygon is an exterior ring and a sequence of holes.
RingNext(ring, i) == IF i = Len(ring) THEN 1 ELSE i + 1

Cross(a, b, p) == (b[1] - a[1]) * (p[2] - a[2]) - (b[2] - a[2]) * (p[1] - a[1])

PointOnSegment(p, a, b) ==
    /\ Cross(a, b, p) = 0
    /\ Min2(a[1], b[1]) <= p[1] /\ p[1] <= Max2(a[1], b[1])
    /\ Min2(a[2], b[2]) <= p[2] /\ p[2] <= Max2(a[2], b[2])

PointOnRing(p, ring) ==
    \E i \in DOMAIN ring : PointOnSegment(p, ring[i], ring[RingNext(ring, i)])

\* The edge a-b crosses the half-line from p towards +x.
EdgeCrossesRay(p, a, b) ==
    /\ (a[2] > p[2]) # (b[2] > p[2])
    /\ IF b[2] > a[2]
       THEN (p[1] - a[1]) * (b[2] - a[2]) < (p[2] - a[2]) * (b[1] - a[1])
       ELSE (p[1] - a[1]) * (b[2] - a[2]) > (p[2] - a[2]) * (b[1] - a[1])

\* p is in the open region the ring encloses (even-odd rule).
PointInRing(p, ring) ==
    /\ ~PointOnRing(p, ring)
    /\ Cardinality({i \in DOMAIN ring :
                      EdgeCrossesRay(p, ring[i], ring[RingNext(ring, i)])}) % 2 = 1

\* Variants of the containment test: one that also accepts the boundary
\* (polygon.covers), one that accepts every point of the bounding box.
polygon_covers(polygon, p) ==
    /\ PointInRing(p, polygon.exterior) \/ PointOnRing(p, polygon.exterior)
    /\ \A h \in DOMAIN polygon.holes : ~PointInRing(p, polygon.holes[h])

polygon_bbox_only(polygon, p) == TRUE

\* polygon.contains(point): the point is in the interior of the polygon; a
\* point of the boundary (exterior ring or hole ring) is not contained.
polygon_contains(polygon, p) ==
    /\ PointInRing(p, polygon.exterior)
    /\ \A h \in DOMAIN polygon.holes :
          ~PointInRing(p, polygon.holes[h]) /\ ~PointOnRing(p, polygon.holes[h])

\* polygon.bounds: <<minx, miny, maxx, maxy>> of the exterior ring.
polygon_bounds(polygon) ==
    LET xs == {v[1] : v \in Range(polygon.exterior)}
        ys == {v[2] : v \in Range(polygon.exterior)}
    IN <<SetMin(xs), SetMin(ys), SetMax(xs), SetMax(ys)>>

\* ------------------------------------------------------ generate_sample_grid

valid_spacings == {10, 50, 100, 500, 1000}

\* A variant that only replaces a spacing that is not positive.
validated_spacing_positive(spacing) == IF spacing <= 0 THEN 100 ELSE spacing

\* Lines 40-43: a spacing outside valid_spacings is replaced by 100.
validated_spacing(spacing) ==
    IF spacing \notin valid_spacings THEN 100 ELSE spacing

\* np.arange(start, stop, step) for step > 0: start + k * step below stop.
np_arange(start, stop, step) ==
    LET n == IF stop > start THEN (stop - start + step - 1) \div step ELSE 0
    IN [k \in 1..n |-> start + (k - 1) * step]

\* A variant with y in the outer loop.
ladder_pairs_y_outer(x_coords, y_coords) ==
    LET nx == Len(x_coords)
    IN [k \in 1..(nx * Len(y_coords)) |->
          <<x_coords[((k - 1) % nx) + 1], y_coords[((k - 1) \div nx) + 1]>>]

\* Lines 67-76: the pairs (x, y) in loop order, x in the outer loop and y in
\* the inner loop, as <<x, y>>.
ladder_pairs(x_coords, y_coords) ==
    LET ny == Len(y_coords)
    IN [k \in 1..(Len(x_coords) * ny) |->
          <<x_coords[((k - 1) \div ny) + 1], y_coords[((k - 1) % ny) + 1]>>]

\* shapely.geometry.shape (lines 46-49, and 413-414 of
\* calculate_polygon_area_km2): it raises for a mapping without coordinates and
\* for a ring of fewer than three vertices.
shape_raises(geometry) ==
    \/ "exterior" \notin DOMAIN geometry
    \/ Len(geometry.exterior) < 3

\* Lines 38-84: the points the loops append, in order; when shape() raises, the
\* except branch of lines 82-84 returns [].
generate_sample_grid(polygon, spacing) ==
    IF shape_raises(polygon) THEN <<>>
    ELSE
    LET step == validated_spacing(spacing)
        b == polygon_bounds(polygon)
        x_coords == np_arange(b[1], b[3], step)
        y_coords == np_arange(b[2], b[4], step)
        kept == SelectSeq(ladder_pairs(x_coords, y_coords),
                          LAMBDA p : polygon_contains(polygon, p))
    IN [k \in DOMAIN kept |-> [lng |-> kept[k][1], lat |-> kept[k][2]]]

\* The ladders of a call, for stating what the scan keeps.
ladder_x(polygon, step) ==
    LET b == polygon_bounds(polygon) IN Range(np_arange(b[1], b[3], step))
ladder_y(polygon, step) ==
    LET b == polygon_bounds(polygon) IN Range(np_arange(b[2], b[4], step))

\* ---------------------------------------------------------- grid inputs

Sides == {50 * k : k \in 1..MaxSide}

Rect(w, h) == [exterior |-> <<<<0, 0>>, <<w, 0>>, <<w, h>>, <<0, h>>>>, holes |-> <<>>]
Triangle(w, h) == [exterior |-> <<<<0, 0>>, <<w, 0>>, <<0, h>>>>, holes |-> <<>>]
Diamond(d) ==
    [exterior |-> <<<<d \div 2, 0>>, <<d, d \div 2>>, <<d \div 2, d>>, <<0, d \div 2>>>>,
     holes |-> <<>>]
LShape(d) ==
    [exterior |-> <<<<0, 0>>, <<d, 0>>, <<d, d \div 2>>, <<d \div 2, d \div 2>>,
                    <<d \div 2, d>>, <<0, d>>>>,
     holes |-> <<>>]
Holed(d) ==
    [exterior |-> <<<<0, 0>>, <<d, 0>>, <<d, d>>, <<0, d>>>>,
     holes |-> << <<<<d \div 5, d \div 5>>, <<4 * (d \div 5), d \div 5>>,
                    <<4 * (d \div 5), 4 * (d \div 5)>>, <<d \div 5, 4 * (d \div 5)>>>> >>]

Polygons ==
    {Rect(w, h) : w \in Sides, h \in Sides} \cup
    {Triangle(w, h) : w \in Sides, h \in Sides} \cup
    {Diamond(d) : d \in Sides} \cup {LShape(d) : d \in Sides} \cup
    {Holed(d) : d \in Sides}

\* The spacings a caller passes: the valid ones and some that are not.
Spacings == valid_spacings \cup {0, 37}

\* Lines 18-84 as one call: the polygon is the caller's, the result is recorded.
Call_generate_sample_grid ==
    /\ Len(grid_calls) < MaxCalls
    /\ \E spacing \in Spacings :
          grid_calls' = Append(grid_calls,
                               [grid_spacing_meters |-> spacing,
                                sample_points |-> generate_sample_grid(polygon_geometry, spacing)])
    /\ UNCHANGED <<polygon_geometry, classify_vars, cluster_vars, sampler_vars, facility_vars, asset_vars>>

\* ------------------------------------------------------ classify_hazard_risk

Tiers == {"Low", "Medium", "High", "Very High"}

\* if value < a: Low / elif value < b: Medium / elif value < c: High / else Very High
below_chain(v, a, b, c) ==
    IF v < a THEN "Low" ELSE IF v < b THEN "Medium" ELSE IF v < c THEN "High"
    ELSE "Very High"

\* if value > a: Low / elif value > b: Medium / elif value > c: High / else Very High
above_chain(v, a, b, c) ==
    IF v > a THEN "Low" ELSE IF v > b THEN "Medium" ELSE IF v > c THEN "High"
    ELSE "Very High"

\* The hazard names classify_hazard_risk has a branch for, by the comparison it uses.
NormalScaleHazards == {"Flood", "Heat", "Water Stress", "Storm Surge", "Tropical Cyclones"}
ReversedScaleHazards == {"Sea Level Rise", "Landslide"}

\* A variant in which Flood takes the Storm Surge triple.
hazard_thresholds_surge(hazard) ==
    CASE hazard \in {"Flood", "Storm Surge"} -> [low |-> 5, medium |-> 15, high |-> 30]
      [] hazard \in {"Heat", "Water Stress"} -> [low |-> 100, medium |-> 450, high |-> 900]
      [] hazard = "Sea Level Rise" -> [low |-> 100, medium |-> 50, high |-> 20]
      [] hazard = "Landslide" -> [low |-> 15, medium |-> 12, high |-> 10]
      [] hazard = "Tropical Cyclones" -> [low |-> 600, medium |-> 1200, high |-> 1800]
      [] OTHER -> [low |-> 3, medium |-> 6, high |-> 9]

\* A variant whose default branch takes the Flood triple.
hazard_thresholds_default_flood(hazard) ==
    CASE hazard \in {"Flood", "Storm Surge"} -> [low |-> 5, medium |-> 15, high |-> 25]
      [] hazard = "Heat" -> [low |-> 100, medium |-> 450, high |-> 900]
      [] hazard = "Water Stress" -> [low |-> 100, medium |-> 400, high |-> 800]
      [] hazard = "Sea Level Rise" -> [low |-> 100, medium |-> 50, high |-> 20]
      [] hazard = "Landslide" -> [low |-> 15, medium |-> 12, high |-> 10]
      [] hazard = "Tropical Cyclones" -> [low |-> 600, medium |-> 1200, high |-> 1800]
      [] OTHER -> [low |-> 5, medium |-> 15, high |-> 25]

\* The constants of each branch (tenths), in the order the branch compares them;
\* OTHER is the default branch of lines 258-267.
hazard_thresholds(hazard) ==
    CASE hazard = "Flood" -> [low |-> 5, medium |-> 15, high |-> 25]
      [] hazard = "Heat" -> [low |-> 100, medium |-> 450, high |-> 900]
      [] hazard = "Water Stress" -> [low |-> 100, medium |-> 400, high |-> 800]
      [] hazard = "Sea Level Rise" -> [low |-> 100, medium |-> 50, high |-> 20]
      [] hazard = "Storm Surge" -> [low |-> 5, medium |-> 15, high |-> 30]
      [] hazard = "Landslide" -> [low |-> 15, medium |-> 12, high |-> 10]
      [] hazard = "Tropical Cyclones" -> [low |-> 600, medium |-> 1200, high |-> 1800]
      [] OTHER -> [low |-> 3, medium |-> 6, high |-> 9]

\* A variant without the None test of lines 178-179: None reaches the comparisons.
classify_hazard_risk_unguarded(val, hazard) ==
    IF val = <<>> THEN "TypeError"
    ELSE LET v == val[1]
             t == hazard_thresholds(hazard)
         IN IF hazard \in ReversedScaleHazards
            THEN above_chain(v, t.low, t.medium, t.high)
            ELSE below_chain(v, t.low, t.medium, t.high)

\* granular_analysis.classify_hazard_risk.
classify_hazard_risk(val, hazard) ==
    IF val = <<>> THEN "No Data"
    ELSE LET v == val[1]
             t == hazard_thresholds(hazard)
         IN IF hazard \in ReversedScaleHazards
            THEN above_chain(v, t.low, t.medium, t.high)
            ELSE below_chain(v, t.low, t.medium, t.high)

\* The hazard names callers pass; the last two are names the function does not know.
HazardTypes == NormalScaleHazards \cup ReversedScaleHazards \cup
    {"Rainfall Induced Landslide", "Wildfire"}

\* ------------------------------------------- hazard_config.classify_risk_value

\* hazard_config.HAZARD_RASTERS: thresholds (tenths) and the reversed flag.
HazardKeys == {"flood_baseline", "heat_baseline", "heat_ssp245_2030", "heat_ssp585_2050",
               "storm_surge_baseline", "storm_surge_future", "landslide_baseline",
               "landslide_rcp26", "landslide_rcp85", "sea_level_rise"}

HAZARD_RASTERS(key) ==
    CASE key = "flood_baseline" ->
            [thresholds |-> [low |-> 5, medium |-> 15, high |-> 25], reversed |-> FALSE]
      [] key \in {"heat_baseline", "heat_ssp245_2030", "heat_ssp585_2050"} ->
            [thresholds |-> [low |-> 100, medium |-> 450, high |-> 900], reversed |-> FALSE]
      [] key \in {"storm_surge_baseline", "storm_surge_future"} ->
            [thresholds |-> [low |-> 5, medium |-> 15, high |-> 25], reversed |-> FALSE]
      [] key \in {"landslide_baseline", "landslide_rcp26", "landslide_rcp85"} ->
            [thresholds |-> [low |-> 15, medium |-> 10, high |-> 5], reversed |-> TRUE]
      [] key = "sea_level_rise" ->
            [thresholds |-> [low |-> 100, medium |-> 50, high |-> 20], reversed |-> TRUE]

\* hazard_config.classify_risk_value; comparing None with a number raises TypeError.
classify_risk_value(val, key) ==
    IF key \notin HazardKeys THEN "Unknown"
    ELSE IF val = <<>> THEN "TypeError"
    ELSE LET v == val[1]
             t == HAZARD_RASTERS(key).thresholds
         IN IF HAZARD_RASTERS(key).reversed
            THEN IF v < t.high THEN "Very High"
                 ELSE IF v < t.medium THEN "High"
                 ELSE IF v < t.low THEN "Medium"
                 ELSE "Low"
            ELSE IF v > t.high THEN "Very High"
                 ELSE IF v > t.medium THEN "High"
                 ELSE IF v > t.low THEN "Medium"
                 ELSE "Low"

\* ------------------------------------------------------ classifier inputs

\* Values are drawn at, below and above every threshold, up to MaxOffset tenths away.
MaxOffset == 1

ThresholdValues ==
    {3, 6, 9, 5, 15, 25, 30, 10, 12, 20, 50, 100, 400, 450, 800, 900, 600, 1200, 1800}

\* The values of the examples (0.3, 0.7, 1.0, 1.2, 1.6, 2.0, 3.0), 0 and a
\* negative value are among them.
Values ==
    {-10, 0, 7, 16} \cup {t + d : t \in ThresholdValues, d \in (0 - MaxOffset)..MaxOffset}

RawValues == {<<>>} \cup {<<v>> : v \in Values}

Call_classify_hazard_risk ==
    /\ \E val \in RawValues, hazard \in HazardTypes :
          /\ classifier' = "classify_hazard_risk"
          /\ value' = val
          /\ hazard_type' = hazard
          /\ risk' = classify_hazard_risk(val, hazard)
    /\ UNCHANGED <<grid_vars, cluster_vars, sampler_vars, facility_vars, asset_vars>>

Call_classify_risk_value ==
    /\ \E val \in RawValues, key \in HazardKeys \cup {"wildfire_baseline"} :
          /\ classifier' = "classify_risk_value"
          /\ value' = val
          /\ hazard_type' = key
          /\ risk' = classify_risk_value(val, key)
    /\ UNCHANGED <<grid_vars, cluster_vars, sampler_vars, facility_vars, asset_vars>>

\* -------------------------------------------- consolidate_points_to_clusters

\* A point dict is a record: lat and lng (a malformed record lacks lat), risks
\* (its '<hazard>_risk' items in insertion order, as <<key, tier>> pairs) and,
\* once the consolidator has run, risk_profile.  '_value' items are left out:
\* the consolidator never reads them.

\* sorted() on the risk keys in use: their alphabetical order.
SortedRiskKeys ==
    <<"Flood_risk", "Heat_risk", "Rainfall Induced Landslide_risk", "Sea Level Rise_risk",
      "Storm Surge_risk", "Tropical Cyclones_risk", "Water Stress_risk">>

\* [k for k in point.keys() if k.endswith('_risk')]
risk_keys(point) == [i \in DOMAIN point.risks |-> point.risks[i][1]]

\* point[k]
risk_of(point, k) ==
    LET i == CHOOSE j \in DOMAIN point.risks : point.risks[j][1] = k
    IN point.risks[i][2]

\* A variant that joins the items in insertion order, without sorting.
risk_profile_unsorted(point) == point.risks

\* Line 302: '|'.join(f"{k}:{point[k]}" for k in sorted(risk_keys)); the string
\* is modelled by the sequence of its <<k, tier>> items.
risk_profile_of(point) ==
    LET ks == SelectSeq(SortedRiskKeys, LAMBDA k : k \in Range(risk_keys(point)))
    IN [i \in DOMAIN ks |-> <<ks[i], risk_of(point, ks[i])>>]

\* Lines 299-303: every point gets the key 'risk_profile' (the input is mutated).
with_profiles(points) ==
    [i \in DOMAIN points |-> ("risk_profile" :> risk_profile_of(points[i])) @@ points[i]]

\* Lines 306-311: the profiles in the order they are first met ...
RECURSIVE profile_order(_, _, _)
profile_order(points, i, acc) ==
    IF i > Len(points) THEN acc
    ELSE profile_order(points, i + 1,
                       IF points[i].risk_profile \in Range(acc) THEN acc
                       ELSE Append(acc, points[i].risk_profile))

Indices(n) == [i \in 1..n |-> i]

\* A variant that restarts a profile's list at every point, keeping the last one.
profile_group_last(points, profile) ==
    LET all == SelectSeq(Indices(Len(points)), LAMBDA i : points[i].risk_profile = profile)
    IN <<all[Len(all)]>>

\* ... and each profile's points (as indices into the input), in input order.
profile_group(points, profile) ==
    SelectSeq(Indices(Len(points)), LAMBDA i : points[i].risk_profile = profile)

\* A variant with epsilon of one grid spacing.
eps_units_single(spacing) == spacing

\* Line 321: eps_degrees = (grid_spacing_meters * 2) * degrees_per_meter, in units.
eps_units(spacing) == spacing * 2

\* sklearn.cluster.DBSCAN(eps, min_samples=1).fit(coords).labels_ (line 342).
min_samples == 1

SquaredDistance(p, q) ==
    (p.lat - q.lat) * (p.lat - q.lat) + (p.lng - q.lng) * (p.lng - q.lng)

\* The eps-neighbourhood of member a of the group (itself included), as positions.
neighborhood(pts, eps, a) ==
    SelectSeq(Indices(Len(pts)),
              LAMBDA b : SquaredDistance(pts[a], pts[b]) <= eps * eps)

is_core(pts, eps, a) == Len(neighborhood(pts, eps, a)) >= min_samples

\* dbscan_inner's depth-first search from a: label it, push its unlabelled
\* neighbours when it is a core point, pop the next one.
RECURSIVE dbscan_expand(_, _, _, _, _, _)
dbscan_expand(pts, eps, labels, a, stack, label_num) ==
    LET fresh == labels[a] = -1
        labels1 == IF fresh THEN [labels EXCEPT ![a] = label_num] ELSE labels
        pushed == IF fresh /\ is_core(pts, eps, a)
                  THEN SelectSeq(neighborhood(pts, eps, a), LAMBDA b : labels1[b] = -1)
                  ELSE <<>>
        stack1 == stack \o pushed
    IN IF stack1 = <<>> THEN labels1
       ELSE dbscan_expand(pts, eps, labels1, stack1[Len(stack1)],
                          SubSeq(stack1, 1, Len(stack1) - 1), label_num)

RECURSIVE dbscan_inner(_, _, _, _, _)
dbscan_inner(pts, eps, labels, a, label_num) ==
    IF a > Len(pts) THEN labels
    ELSE IF labels[a] # -1 \/ ~is_core(pts, eps, a)
         THEN dbscan_inner(pts, eps, labels, a + 1, label_num)
         ELSE dbscan_inner(pts, eps, dbscan_expand(pts, eps, labels, a, <<>>, label_num),
                           a + 1, label_num + 1)

DBSCAN_labels(pts, eps) == dbscan_inner(pts, eps, [a \in DOMAIN pts |-> -1], 1, 0)

\* sorted ascending: the iteration order of set(labels) for small integers.
RECURSIVE SortedSeq(_)
SortedSeq(S) == IF S = {} THEN <<>> ELSE <<SetMin(S)>> \o SortedSeq(S \ {SetMin(S)})

RECURSIVE SumSeq(_)
SumSeq(s) == IF s = <<>> THEN 0 ELSE s[1] + SumSeq(Tail(s))

\* np.mean of a list: the exact quotient, kept as numerator and denominator.
np_mean(s) == [num |-> SumSeq(s), den |-> Len(s)]

\* A variant without the single-point branch, in which a lone point is noise.
group_clusters_no_singleton(points, profile, spacing) ==
    LET members == profile_group(points, profile)
        pts == [a \in DOMAIN members |-> points[members[a]]]
    IN IF Len(members) = 1 THEN <<>>
       ELSE LET labels == DBSCAN_labels(pts, eps_units(spacing))
                label_seq == SortedSeq(Range(labels))
            IN [c \in DOMAIN label_seq |->
                  LET cluster_points ==
                          SelectSeq(Indices(Len(pts)), LAMBDA a : labels[a] = label_seq[c])
                  IN [representative_point |->
                          [lat |-> np_mean([a \in DOMAIN cluster_points |->
                                               pts[cluster_points[a]].lat]),
                           lng |-> np_mean([a \in DOMAIN cluster_points |->
                                               pts[cluster_points[a]].lng])],
                      risk_profile |-> profile,
                      point_count |-> Len(cluster_points),
                      all_points |-> [a \in DOMAIN cluster_points |->
                                         members[cluster_points[a]]]]]

\* Lines 327-339 and 341-363: the clusters of one profile group, without ids.
\* all_points holds the member dicts themselves: here their indices in the input.
group_clusters(points, profile, spacing) ==
    LET members == profile_group(points, profile)
        pts == [a \in DOMAIN members |-> points[members[a]]]
    IN IF Len(members) = 1
       THEN << [representative_point |->
                    [lat |-> [num |-> pts[1].lat, den |-> 1],
                     lng |-> [num |-> pts[1].lng, den |-> 1]],
                risk_profile |-> profile,
                point_count |-> 1,
                all_points |-> members] >>
       ELSE LET labels == DBSCAN_labels(pts, eps_units(spacing))
                label_seq == SortedSeq(Range(labels))
            IN [c \in DOMAIN label_seq |->
                  LET cluster_points ==
                          SelectSeq(Indices(Len(pts)), LAMBDA a : labels[a] = label_seq[c])
                  IN [representative_point |->
                          [lat |-> np_mean([a \in DOMAIN cluster_points |->
                                               pts[cluster_points[a]].lat]),
                           lng |-> np_mean([a \in DOMAIN cluster_points |->
                                               pts[cluster_points[a]].lng])],
                      risk_profile |-> profile,
                      point_count |-> Len(cluster_points),
                      all_points |-> [a \in DOMAIN cluster_points |->
                                         members[cluster_points[a]]]]]

\* Lines 323-363: the groups in discovery order, cluster_id counting from 0.
RECURSIVE all_clusters(_, _, _, _, _)
all_clusters(points, profiles, g, spacing, acc) ==
    IF g > Len(profiles) THEN acc
    ELSE all_clusters(points, profiles, g + 1, spacing,
                      acc \o group_clusters(points, profiles[g], spacing))

number_clusters(clusters) ==
    [c \in DOMAIN clusters |-> ("cluster_id" :> (c - 1)) @@ clusters[c]]

\* round(x, 1) of the percentage count / total * 100, in tenths of a percent
\* (round half to even).
round_percentage(count, total) ==
    LET q == (count * 1000) \div total
        r == (count * 1000) % total
    IN IF 2 * r > total \/ (2 * r = total /\ q % 2 = 1) THEN q + 1 ELSE q

\* A variant that takes the alphabetically first risk key of the first point.
first_risk_key_sorted(points) ==
    LET ks == SelectSeq(SortedRiskKeys, LAMBDA k : k \in Range(risk_keys(points[1])))
    IN IF ks = <<>> THEN <<>> ELSE <<ks[1]>>

\* Line 371: the first '_risk' key of the first point, <<>> for None.
first_risk_key(points) ==
    IF risk_keys(points[1]) = <<>> THEN <<>> ELSE <<risk_keys(points[1])[1]>>

\* Lines 373-382.
risk_distribution(points) ==
    LET frk == first_risk_key(points)
    IN IF frk = <<>> THEN <<>>
       ELSE [level \in Tiers |->
               LET count == Cardinality({i \in DOMAIN points :
                                           risk_of(points[i], frk[1]) = level})
               IN [count |-> count, percentage |-> round_percentage(count, Len(points))]]

\* The exceptions the body can raise: KeyError on p['lat'] / p['lng'] (line 325)
\* and on p[first_risk_key] (line 375).
raises_KeyError(points) ==
    \/ \E i \in DOMAIN points : {"lat", "lng"} \ DOMAIN points[i] # {}
    \/ /\ first_risk_key(points) # <<>>
       /\ \E i \in DOMAIN points :
             first_risk_key(points)[1] \notin Range(risk_keys(points[i]))

\* A variant whose failure result carries zeroed statistics.
EmptyResult_counted ==
    [clusters |-> <<>>, statistics |-> [total_points |-> 0, cluster_count |-> 0]]

\* Lines 296 and 395: {'clusters': [], 'statistics': {}}.
EmptyResult == [clusters |-> <<>>, statistics |-> <<>>]

\* Lines 294-395: the returned dict.
consolidate_points_to_clusters(points, spacing) ==
    IF points = <<>> THEN EmptyResult
    ELSE IF raises_KeyError(points) THEN EmptyResult
    ELSE LET profiled == with_profiles(points)
             clusters == number_clusters(
                 all_clusters(profiled, profile_order(profiled, 1, <<>>), 1, spacing, <<>>))
         IN [clusters |-> clusters,
             statistics |-> [total_points |-> Len(points),
                             cluster_count |-> Len(clusters),
                             risk_distribution |-> risk_distribution(points)]]

\* ------------------------------------------------------ consolidation inputs

\* Points per call, and the largest latitude (in steps of 10 units).
MaxPoints == 3
MaxCoord == 3

Positions == {[lat |-> 10 * i, lng |-> 0] : i \in 0..MaxCoord} \cup {[lat |-> 10, lng |-> 20]}

RiskItems == {<<<<"Flood_risk", "Low">>, <<"Heat_risk", "Low">>>>,
              <<<<"Heat_risk", "Low">>, <<"Flood_risk", "High">>>>,
              <<<<"Heat_risk", "Low">>>>}

PointDicts ==
    {[lat |-> pos.lat, lng |-> pos.lng, risks |-> r] : pos \in Positions, r \in RiskItems}
    \cup {[lng |-> 0, risks |-> <<<<"Flood_risk", "Low">>, <<"Heat_risk", "Low">>>>]}

RECURSIVE SeqsUpTo(_, _)
SeqsUpTo(S, n) ==
    IF n = 0 THEN {<<>>}
    ELSE LET shorter == SeqsUpTo(S, n - 1)
         IN shorter \cup {Append(s, x) : s \in {t \in shorter : Len(t) = n - 1}, x \in S}

ClusterSpacings == {10, 50}

\* One call: the result is returned and, unless the input is empty, every point
\* dict has been given its risk_profile (step 1 runs before anything can raise).
Call_consolidate_points_to_clusters ==
    /\ consolidated = <<>>
    /\ consolidated' = <<consolidate_points_to_clusters(analyzed_points, grid_spacing_meters)>>
    /\ analyzed_points' = with_profiles(analyzed_points)
    /\ UNCHANGED <<grid_spacing_meters, grid_vars, classify_vars, sampler_vars, facility_vars, asset_vars>>

\* ----------------------------------------------------- query_hazard_for_points

\* A band value read from a raster: a number (in tenths) or the floating NaN.
Number(v) == <<"num", v>>
NaN == <<"nan", 0>>

\* raster_value == src.nodata (line 139): false when the raster declares no
\* sentinel (None) and false for NaN on either side.
equals_nodata(raster_value, nodata) ==
    /\ nodata # <<>>
    /\ raster_value # NaN
    /\ nodata[1] # NaN
    /\ raster_value = nodata[1]

\* np.isnan(raster_value) (line 139).
np_isnan(raster_value) == raster_value = NaN

\* A variant that tests the sentinel only.
is_nodata_sentinel_only(raster_value, nodata) == equals_nodata(raster_value, nodata)

\* Line 139: raster_value == src.nodata or np.isnan(raster_value).
is_nodata(raster_value, nodata) ==
    equals_nodata(raster_value, nodata) \/ np_isnan(raster_value)

\* A variant that stores the coordinates under the wrong keys.
process_point_swapped(bands, nodata, point, name) ==
    [lat |-> point.lng, lng |-> point.lat,
     value |-> IF bands = <<>> \/ is_nodata(bands[1], nodata) THEN <<>> ELSE <<bands[1][2]>>,
     hazard |-> name]

\* Lines 135-157, one turn of the loop: bands is sampled_values[i]. Reading its
\* first band raises when there is none, and the except branch of lines 150-157
\* appends the point with value None; otherwise lines 139-148 append the point
\* with None for a no-data value and float(raster_value) for any other.
process_point(bands, nodata, point, name) ==
    IF bands = <<>>
    THEN [lat |-> point.lat, lng |-> point.lng, value |-> <<>>, hazard |-> name]
    ELSE LET raster_value == bands[1]
         IN [lat |-> point.lat, lng |-> point.lng,
             value |-> IF is_nodata(raster_value, nodata) THEN <<>>
                       ELSE <<raster_value[2]>>,
             hazard |-> name]

\* Line 129: the (lng, lat) pair of a point, the key of the raster cell it reads.
coords(points) == [i \in DOMAIN points |-> [lat |-> points[i].lat, lng |-> points[i].lng]]

\* Line 132, list(sample_gen(src, coords)): the generator reads the points one
\* by one and list() consumes it whole, so one read that raises aborts the call
\* of list() ...
sample_gen_raises(file, points) ==
    \E i \in DOMAIN points : file.cells[coords(points)[i]].raises

\* ... and otherwise the list holds the band array of every point, in order.
sample_gen(file, points) ==
    [i \in DOMAIN points |-> file.cells[coords(points)[i]].bands]

\* Lines 106-164 as a function of the arguments and the environment: the list
\* the call returns when nothing else runs.
query_hazard_for_points(files, installed, points, path, name) ==
    IF ~installed THEN <<>>
    ELSE IF points = <<>> THEN <<>>
    ELSE IF ~files[path].exists THEN <<>>
    ELSE IF ~files[path].readable THEN <<>>
    ELSE IF sample_gen_raises(files[path], points) THEN <<>>
    ELSE LET sampled_values == sample_gen(files[path], points)
         IN [i \in DOMAIN points |->
               process_point(sampled_values[i], files[path].nodata, points[i], name)]

\* ------------------------------------------------ query_all_hazards_for_points

\* d[k] = v on an insertion-ordered dict kept as a sequence of <<key, value>>.
dict_set(items, k, v) ==
    IF \E j \in DOMAIN items : items[j][1] = k
    THEN [j \in DOMAIN items |-> IF items[j][1] = k THEN <<k, v>> ELSE items[j]]
    ELSE Append(items, <<k, v>>)

\* Lines 456-462: the records the results are collected in.
initial_analyzed_points(points) ==
    [i \in DOMAIN points |->
       [lat |-> points[i].lat, lng |-> points[i].lng, values |-> <<>>, risks |-> <<>>]]

\* Lines 483-487: the value and the risk tier of every returned result are
\* stored under '<hazard>_value' and '<hazard>_risk' of the record at its index.
store_hazard_results(analyzed, hazard_results, name) ==
    [i \in DOMAIN analyzed |->
       IF i <= Len(hazard_results)
       THEN [analyzed[i] EXCEPT
               !.values = dict_set(@, name \o "_value", hazard_results[i].value),
               !.risks = dict_set(@, name \o "_risk",
                                  classify_hazard_risk(hazard_results[i].value, name))]
       ELSE analyzed[i]]

\* Lines 465-474: whether the hazard is skipped (no configured path, or no file).
hazard_skipped(files, config, name) ==
    \/ config[name] = <<>>
    \/ ~files[config[name][1]].exists

\* Lines 465-487, from the h-th selected hazard on.
RECURSIVE query_all_loop(_, _, _, _, _, _, _)
query_all_loop(files, installed, points, selected, config, h, analyzed) ==
    IF h > Len(selected) THEN analyzed
    ELSE query_all_loop(files, installed, points, selected, config, h + 1,
            IF hazard_skipped(files, config, selected[h]) THEN analyzed
            ELSE store_hazard_results(
                     analyzed,
                     query_hazard_for_points(files, installed, points,
                                             config[selected[h]][1], selected[h]),
                     selected[h]))

\* Lines 451-490 as a function of the arguments and the environment. The points
\* of the model all carry 'lat' and 'lng', so nothing reaches the except branch.
query_all_hazards_for_points(files, installed, points, selected, config) ==
    IF points = <<>> THEN <<>>
    ELSE query_all_loop(files, installed, points, selected, config, 1,
                        initial_analyzed_points(points))

\* ------------------------------------------------------- analysis requests

\* The analysis requests that run side by side. frames[r] holds the arguments
\* and the locals of request r's calls.
Requests == {1, 2}

\* A variant in which rasterio.open hands every caller of a path one cached handle.
new_handle_cached(r, path) == [owner |-> 0, path |-> path]

\* Line 127, rasterio.open(path): a dataset object of its own for every call.
new_handle(r, path) == [owner |-> r, path |-> path]

\* A variant in which leaving the block leaves the dataset open.
with_exit_leak(datasets, handle) == datasets

\* Line 127, the end of the with block, reached by falling out of it or by an
\* exception passing through it: the dataset is closed.
with_exit(datasets, handle) == datasets \ {handle}

\* 'return res' of query_hazard_for_points: the locals are gone and the caller
\* goes on (the request itself, or line 483 of query_all_hazards_for_points).
query_return(f, res) ==
    [f EXCEPT !.hazard_results = <<res>>,
              !.src = <<>>, !.sampled_values = <<>>, !.results = <<>>, !.i = 0,
              !.pc = IF f.entry = "query_hazard_for_points" THEN "done" ELSE "store"]

\* Lines 106-123: entering query_hazard_for_points with the arguments of f.
query_entry(f) ==
    IF \/ ~rasterio_installed
       \/ f.sample_points = <<>>
       \/ ~raster_files[f.hazard_raster_path].exists
    THEN query_return([f EXCEPT !.opens = 0], <<>>)
    ELSE [f EXCEPT !.pc = "open", !.opens = 0, !.hazard_results = <<>>, !.results = <<>>]

\* A request calls query_hazard_for_points itself.
Call_query_hazard_for_points(r) ==
    /\ frames[r].pc = "start"
    /\ frames[r].entry = "query_hazard_for_points"
    /\ frames' = [frames EXCEPT ![r] = query_entry(@)]
    /\ UNCHANGED <<raster_files, rasterio_installed, open_datasets>>
    /\ UNCHANGED <<grid_vars, classify_vars, cluster_vars, facility_vars, asset_vars>>

\* Line 127, rasterio.open: it raises for a file it cannot read, and the except
\* branch of lines 162-164 returns []; otherwise the dataset is open.
Open_raster(r) ==
    /\ frames[r].pc = "open"
    /\ LET f == frames[r]
           handle == new_handle(r, f.hazard_raster_path)
       IN IF ~raster_files[f.hazard_raster_path].readable
          THEN /\ frames' = [frames EXCEPT ![r] = query_return(f, <<>>)]
               /\ UNCHANGED open_datasets
          ELSE /\ frames' = [frames EXCEPT ![r] =
                               [f EXCEPT !.src = <<handle>>, !.opens = @ + 1, !.pc = "sample"]]
               /\ open_datasets' = open_datasets \cup {handle}
    /\ UNCHANGED <<raster_files, rasterio_installed>>
    /\ UNCHANGED <<grid_vars, classify_vars, cluster_vars, facility_vars, asset_vars>>

\* Lines 129-132: the batch read. Reading a closed dataset raises, and so does
\* the read of a point whose lookup fails; the exception leaves the with block
\* and the except branch of lines 162-164 returns [].
Sample_points(r) ==
    /\ frames[r].pc = "sample"
    /\ LET f == frames[r]
           file == raster_files[f.hazard_raster_path]
       IN IF f.src[1] \notin open_datasets \/ sample_gen_raises(file, f.sample_points)
          THEN /\ frames' = [frames EXCEPT ![r] = query_return(f, <<>>)]
               /\ open_datasets' = with_exit(open_datasets, f.src[1])
          ELSE /\ frames' = [frames EXCEPT ![r] =
                               [f EXCEPT !.sampled_values = sample_gen(file, f.sample_points),
                                         !.i = 1, !.pc = "process"]]
               /\ UNCHANGED open_datasets
    /\ UNCHANGED <<raster_files, rasterio_installed>>
    /\ UNCHANGED <<grid_vars, classify_vars, cluster_vars, facility_vars, asset_vars>>

\* Lines 135-157: one turn of the loop over the points.
Process_point(r) ==
    /\ frames[r].pc = "process"
    /\ frames[r].i <= Len(frames[r].sample_points)
    /\ LET f == frames[r]
       IN frames' = [frames EXCEPT ![r] =
             [f EXCEPT !.results =
                           Append(@, process_point(f.sampled_values[f.i],
                                                   raster_files[f.hazard_raster_path].nodata,
                                                   f.sample_points[f.i], f.hazard_name)),
                       !.i = @ + 1]]
    /\ UNCHANGED <<raster_files, rasterio_installed, open_datasets>>
    /\ UNCHANGED <<grid_vars, classify_vars, cluster_vars, facility_vars, asset_vars>>

\* Lines 159-160: the loop is over, the with block ends and results is returned.
Return_results(r) ==
    /\ frames[r].pc = "process"
    /\ frames[r].i > Len(frames[r].sample_points)
    /\ open_datasets' = with_exit(open_datasets, frames[r].src[1])
    /\ frames' = [frames EXCEPT ![r] = query_return(frames[r], frames[r].results)]
    /\ UNCHANGED <<raster_files, rasterio_installed>>
    /\ UNCHANGED <<grid_vars, classify_vars, cluster_vars, facility_vars, asset_vars>>

\* Lines 451-462: a request calls query_all_hazards_for_points.
Call_query_all_hazards_for_points(r) ==
    /\ frames[r].pc = "start"
    /\ frames[r].entry = "query_all_hazards_for_points"
    /\ LET f == frames[r]
       IN frames' = [frames EXCEPT ![r] =
             IF f.sample_points = <<>>
             THEN [f EXCEPT !.output = <<<<>>>>, !.pc = "consolidate"]
             ELSE [f EXCEPT !.analyzed_points = initial_analyzed_points(f.sample_points),
                            !.h = 1, !.pc = "hazard_loop"]]
    /\ UNCHANGED <<raster_files, rasterio_installed, open_datasets>>
    /\ UNCHANGED <<grid_vars, classify_vars, cluster_vars, facility_vars, asset_vars>>

\* A variant in which a hazard without a raster ends the call with [].
continue_loop_abort(f) == [f EXCEPT !.output = <<<<>>>>, !.pc = "consolidate"]

\* Lines 470 and 474, 'continue': on to the next selected hazard.
continue_loop(f) == [f EXCEPT !.h = @ + 1]

\* Lines 465-480 and 490: the head of the loop over the selected hazards. After
\* the last hazard analyzed_points is returned; a hazard without a configured
\* path or without a file is skipped; for any other the sampler is called.
Next_hazard(r) ==
    /\ frames[r].pc = "hazard_loop"
    /\ LET f == frames[r]
       IN frames' = [frames EXCEPT ![r] =
             IF f.h > Len(f.selected_hazards)
             THEN [f EXCEPT !.output = <<f.analyzed_points>>, !.pc = "consolidate"]
             ELSE IF hazard_skipped(raster_files, f.hazard_raster_config,
                                    f.selected_hazards[f.h])
             THEN continue_loop(f)
             ELSE query_entry([f EXCEPT
                     !.hazard_name = f.selected_hazards[f.h],
                     !.hazard_raster_path = f.hazard_raster_config[f.selected_hazards[f.h]][1]])]
    /\ UNCHANGED <<raster_files, rasterio_installed, open_datasets>>
    /\ UNCHANGED <<grid_vars, classify_vars, cluster_vars, facility_vars, asset_vars>>

\* Lines 483-487: the returned results are stored, and the loop goes on.
Store_hazard_results(r) ==
    /\ frames[r].pc = "store"
    /\ LET f == frames[r]
       IN frames' = [frames EXCEPT ![r] =
             [f EXCEPT !.analyzed_points =
                           store_hazard_results(@, f.hazard_results[1], f.hazard_name),
                       !.h = @ + 1, !.pc = "hazard_loop"]]
    /\ UNCHANGED <<raster_files, rasterio_installed, open_datasets>>
    /\ UNCHANGED <<grid_vars, classify_vars, cluster_vars, facility_vars, asset_vars>>

\* The request consolidates the points query_all_hazards_for_points returned;
\* the call gives every point dict its risk_profile.
Consolidate_request_points(r) ==
    /\ frames[r].pc = "consolidate"
    /\ LET f == frames[r]
       IN frames' = [frames EXCEPT ![r] =
             [f EXCEPT !.consolidated =
                           <<consolidate_points_to_clusters(f.output[1],
                                                            f.grid_spacing_meters)>>,
                       !.output = <<with_profiles(f.output[1])>>,
                       !.pc = "done"]]
    /\ UNCHANGED <<raster_files, rasterio_installed, open_datasets>>
    /\ UNCHANGED <<grid_vars, classify_vars, cluster_vars, facility_vars, asset_vars>>

\* ----------------------------------------------------------- sampler inputs

\* Sample points per request.
MaxSamplePoints == 2

\* Two neighbouring grid points (10 units apart, the grid spacing of the requests).
SamplePositions == {[lat |-> 0, lng |-> 0], [lat |-> 10, lng |-> 0]}

RasterPaths == {"flood.tif", "heat.tif"}

\* What a raster holds at a position: a read that raises, a band array without
\* a first band, or the first band's value: the sentinel -9999.0, 0.3, 2.0 or NaN.
Cells ==
    {[raises |-> TRUE, bands |-> <<>>], [raises |-> FALSE, bands |-> <<>>]}
    \cup {[raises |-> FALSE, bands |-> <<b>>] :
             b \in {Number(-99990), Number(3), Number(20), NaN}}

NoCell == [raises |-> TRUE, bands |-> <<>>]

\* No file under the path, and a file rasterio cannot open.
MissingFile ==
    [exists |-> FALSE, readable |-> FALSE, nodata |-> <<>>,
     cells |-> [pos \in SamplePositions |-> NoCell]]
CorruptFile ==
    [exists |-> TRUE, readable |-> FALSE, nodata |-> <<>>,
     cells |-> [pos \in SamplePositions |-> NoCell]]

\* The rasters: with the declared sentinel -9999.0 or with none.
RasterFiles ==
    {[exists |-> TRUE, readable |-> TRUE, nodata |-> nd, cells |-> c] :
        nd \in {<<>>, <<Number(-99990)>>}, c \in [SamplePositions -> Cells]}

\* The heat raster: 5.0 and 50.0, no sentinel.
HeatFile ==
    [exists |-> TRUE, readable |-> TRUE, nodata |-> <<>>,
     cells |-> [pos \in SamplePositions |->
                  [raises |-> FALSE,
                   bands |-> <<IF pos.lat = 0 THEN Number(50) ELSE Number(500)>>]]]

SamplePointLists == SeqsUpTo(SamplePositions, MaxSamplePoints)

SamplerHazards == {"Flood", "Heat"}

\* hazard_raster_config.get(name): <<>> for None.
RasterConfigs ==
    {[name \in SamplerHazards |-> <<>>],
     [name \in SamplerHazards |-> IF name = "Flood" THEN <<"flood.tif">> ELSE <<"heat.tif">>],
     [name \in SamplerHazards |-> IF name = "Flood" THEN <<"flood.tif">> ELSE <<>>]}

\* The frame of a request that has not started.
NewFrame(entry, points, path, name, selected, config) ==
    [entry |-> entry, pc |-> "start",
     sample_points |-> points, hazard_raster_path |-> path, hazard_name |-> name,
     selected_hazards |-> selected, hazard_raster_config |-> config,
     grid_spacing_meters |-> 10,
     h |-> 0, analyzed_points |-> <<>>,
     src |-> <<>>, opens |-> 0, sampled_values |-> <<>>, i |-> 0, results |-> <<>>,
     hazard_results |-> <<>>, output |-> <<>>, consolidated |-> <<>>]

\* No request.
NoFrame == [NewFrame("none", <<>>, "flood.tif", "Unknown", <<>>,
                     [name \in SamplerHazards |-> <<>>]) EXCEPT !.pc = "done"]

\* Requests that call the sampler on one raster ...
QueryFrames(lists) ==
    {NewFrame("query_hazard_for_points", points, path, "Flood", <<>>,
              [name \in SamplerHazards |-> <<>>]) :
        points \in lists, path \in RasterPaths}

\* ... and requests that query the selected hazards and consolidate.
QueryAllFrames(lists, selections, configs) ==
    {NewFrame("query_all_hazards_for_points", points, "flood.tif", "Unknown", selected, config) :
        points \in lists, selected \in selections, config \in configs}

\* ------------------------------------------------------ views.add_facility

\* polygon.area of a ring, doubled and signed (the shoelace sum), in square units.
ring_area2(ring) ==
    SumSeq([i \in DOMAIN ring |->
              ring[i][1] * ring[RingNext(ring, i)][2] - ring[RingNext(ring, i)][1] * ring[i][2]])

Abs(n) == IF n < 0 THEN 0 - n ELSE n

\* polygon.area: the exterior less the holes, in square units.
polygon_area(polygon) ==
    (Abs(ring_area2(polygon.exterior))
       - SumSeq([h \in DOMAIN polygon.holes |-> Abs(ring_area2(polygon.holes[h]))])) \div 2

\* granular_analysis.calculate_polygon_area_km2: polygon.area * 12321, and 0
\* from the except branch. A unit is 1/111000 degree, so a square unit is one
\* millionth of a km2; areas are kept in these millionths.
calculate_polygon_area_km2(geometry) ==
    IF shape_raises(geometry) THEN 0 ELSE polygon_area(geometry)

\* Line 332, area_km2 >= 6, in millionths of a km2.
granular_area_threshold == 6000000

\* A variant that stores the keys whatever generate_sample_grid returned.
with_sample_points_always(facility, sample_points, grid_spacing) ==
    ("sample_points" :> sample_points) @@ ("grid_spacing_meters" :> grid_spacing)
        @@ ("sample_points_count" :> Len(sample_points)) @@ facility

\* Lines 345-352: the sample points are stored when there are any.
with_sample_points(facility, sample_points, grid_spacing) ==
    IF sample_points # <<>>
    THEN ("sample_points" :> sample_points) @@ ("grid_spacing_meters" :> grid_spacing)
             @@ ("sample_points_count" :> Len(sample_points)) @@ facility
    ELSE facility

\* Lines 314-354: the facility record built from the request.
new_facility(data) ==
    LET base == [Facility |-> data.name, Lat |-> data.lat[1], Long |-> data.lng[1],
                 Archetype |-> data.archetype]
    IN IF data.geometry = <<>> THEN base
       ELSE LET geometry == data.geometry[1]
                area_km2 == IF data.areaKm2 = <<>> THEN calculate_polygon_area_km2(geometry)
                            ELSE data.areaKm2[1]
                with_geometry ==
                    ("geometry" :> geometry) @@ ("polygon_area_km2" :> area_km2) @@ base
            IN IF area_km2 >= granular_area_threshold
               THEN LET grid_spacing == IF data.gridSpacing = <<>> THEN 100
                                        ELSE data.gridSpacing[1]
                    IN with_sample_points(with_geometry,
                                          generate_sample_grid(geometry, grid_spacing),
                                          grid_spacing)
               ELSE with_geometry

\* Lines 266-386, a POST: without lat or lng nothing is stored and the answer
\* is an error; otherwise the facility is appended to the session list (the
\* database and CSV copies are written inside try blocks that swallow their
\* errors) and returned.
Call_add_facility ==
    /\ response = <<>>
    /\ IF post_data.lat = <<>> \/ post_data.lng = <<>>
       THEN /\ response' = <<[success |-> FALSE]>>
            /\ UNCHANGED facility_data
       ELSE /\ facility_data' = Append(facility_data, new_facility(post_data))
            /\ response' = <<[success |-> TRUE, facility |-> new_facility(post_data)]>>
    /\ UNCHANGED <<post_data, results, grid_vars, classify_vars, cluster_vars, sampler_vars, asset_vars>>

\* ----------------------------------------------------------- facility inputs

\* GeoJSON that cannot be parsed (no coordinates), a ring of two vertices, and
\* two polygons without area (three vertices on one line).
UnparsableGeometry == [type |-> "Polygon"]
TwoVertexRing == [exterior |-> <<<<0, 0>>, <<3000, 0>>>>, holes |-> <<>>]
FlatPolygon == [exterior |-> <<<<0, 0>>, <<3000, 0>>, <<1500, 0>>>>, holes |-> <<>>]
DiagonalPolygon == [exterior |-> <<<<0, 0>>, <<3000, 3000>>, <<1500, 1500>>>>, holes |-> <<>>]

\* None, a polygon of 6 km2, one of 4 km2, and the four above.
FacilityGeometries ==
    {<<>>, <<Rect(3000, 2000)>>, <<Rect(2000, 2000)>>,
     <<UnparsableGeometry>>, <<TwoVertexRing>>, <<FlatPolygon>>, <<DiagonalPolygon>>}

GridSpacingInputs == {<<>>, <<1000>>, <<37>>}
AreaInputs == {<<>>, <<2000000>>, <<7000000>>}

PostBodies ==
    {[name |-> "Plant", archetype |-> "default archetype", lat |-> lat, lng |-> <<1500>>,
      geometry |-> geometry, gridSpacing |-> spacing, areaKm2 |-> area] :
        lat \in {<<>>, <<1000>>}, geometry \in FacilityGeometries,
        spacing \in GridSpacingInputs, area \in AreaInputs}

\* A facility added earlier by a click on the map.
ExistingFacility ==
    [Facility |-> "Depot", Lat |-> 0, Long |-> 0, Archetype |-> "default archetype"]

\* ---------------------------------------------------- views.show_results

\* The largest index of a '<name>_Point_<idx>' row.
MaxRowIndex == 4

\* Line 646: f"{facility_name}_Point_{idx}".
point_row_name(facility_name, idx) == facility_name \o "_Point_" \o ToString(idx)

\* The texts a row name is made of, and the texts with one '_Point_' in them:
\* the strings among which the two string tests below search.
NameFragments == {"Plant", "Depot", "North"} \cup {ToString(idx) : idx \in 1..MaxRowIndex}
NameTexts == NameFragments \cup {a \o "_Point_" \o b : a, b \in NameFragments}

\* Line 863: '_Point_' in facility_name.
contains_point_marker(facility_name) ==
    \E a, b \in NameTexts : facility_name = a \o "_Point_" \o b

\* Line 865: facility_name.split('_Point_')[0], the text before the first
\* '_Point_'.
base_facility_name(facility_name) ==
    CHOOSE a \in NameTexts :
        /\ ~contains_point_marker(a)
        /\ \E b \in NameTexts : facility_name = a \o "_Point_" \o b

\* Line 609.
has_sample_points(facilities) ==
    \E k \in DOMAIN facilities : "sample_points" \in DOMAIN facilities[k]

\* Lines 618-650: the row of the facility, then one row per sample point.
facility_rows(facility) ==
    LET centroid == [Facility |-> facility.Facility, Lat |-> facility.Lat,
                     Long |-> facility.Long, Archetype |-> facility.Archetype]
    IN IF "sample_points" \in DOMAIN facility
       THEN <<centroid>> \o
            [idx \in DOMAIN facility.sample_points |->
               [Facility |-> point_row_name(facility.Facility, idx),
                Lat |-> facility.sample_points[idx].lat,
                Long |-> facility.sample_points[idx].lng,
                Archetype |-> facility.Archetype]]
       ELSE <<centroid>>

RECURSIVE expanded_rows(_)
expanded_rows(facilities) ==
    IF facilities = <<>> THEN <<>>
    ELSE facility_rows(Head(facilities)) \o expanded_rows(Tail(facilities))

\* Lines 638-642: the metadata of the facilities with sample points, by name
\* (a later facility of the same name replaces an earlier one).
granular_facility_mapping(facilities) ==
    LET sampled == {k \in DOMAIN facilities : "sample_points" \in DOMAIN facilities[k]}
    IN [name \in {facilities[k].Facility : k \in sampled} |->
          LET last == CHOOSE k \in sampled :
                          /\ facilities[k].Facility = name
                          /\ \A j \in sampled : facilities[j].Facility = name => j <= k
          IN [sample_point_count |-> Len(facilities[last].sample_points),
              grid_spacing |-> IF "grid_spacing_meters" \in DOMAIN facilities[last]
                               THEN facilities[last].grid_spacing_meters ELSE 100,
              polygon_area_km2 |-> IF "polygon_area_km2" \in DOMAIN facilities[last]
                                   THEN facilities[last].polygon_area_km2 ELSE 0]]

\* The hazard analysis of the rows of the CSV: one result row per row, in the
\* same order and under the same 'Facility', with the hazard columns added
\* (here a flood depth of 0.3 m everywhere).
analysis_rows(rows) ==
    [n \in DOMAIN rows |-> ("Flood Depth (meters)" :> 3) @@ rows[n]]

\* Lines 872-904: a sample-point row in the format of the consolidation.
point_data(row) ==
    [lat |-> row.Lat, lng |-> row.Long,
     values |-> <<<<"Flood_value", <<row["Flood Depth (meters)"]>>>>>>,
     risks |-> <<<<"Flood_risk",
                   classify_hazard_risk(<<row["Flood Depth (meters)"]>>, "Flood")>>>>]

\* Lines 856-913: the rows without '_Point_' in their name ...
centroid_rows(data) ==
    SelectSeq(data, LAMBDA row : ~contains_point_marker(row.Facility))

\* ... and the others, grouped by the name before '_Point_'.
sample_point_rows(data) ==
    LET point_rows == SelectSeq(data, LAMBDA row : contains_point_marker(row.Facility))
    IN [name \in {base_facility_name(point_rows[n].Facility) : n \in DOMAIN point_rows} |->
          LET own == SelectSeq(point_rows,
                               LAMBDA row : base_facility_name(row.Facility) = name)
          IN [n \in DOMAIN own |-> point_data(own[n])]]

\* Lines 918-953: the first centroid row of a name that has sample-point rows
\* is given the consolidation of these rows, made with the spacing of the
\* mapping (100 without one).
with_granular_analysis(rows, points, mapping) ==
    [n \in DOMAIN rows |->
       LET facility_name == rows[n].Facility
       IN IF /\ facility_name \in DOMAIN points
             /\ \A j \in 1..(n - 1) : rows[j].Facility # facility_name
          THEN LET sample_points == points[facility_name]
                   grid_spacing == IF facility_name \in DOMAIN mapping
                                   THEN mapping[facility_name].grid_spacing ELSE 100
                   polygon_area_km2 == IF facility_name \in DOMAIN mapping
                                       THEN mapping[facility_name].polygon_area_km2 ELSE 0
                   result == consolidate_points_to_clusters(sample_points, grid_spacing)
               IN ("granular_analysis" :>
                       [analyzed_points |-> with_profiles(sample_points),
                        clusters |-> result.clusters,
                        statistics |-> result.statistics,
                        grid_spacing |-> grid_spacing,
                        polygon_area_km2 |-> polygon_area_km2])
                  @@ ("has_granular_analysis" :> TRUE)
                  @@ ("sample_point_count" :> Len(sample_points))
                  @@ rows[n]
          ELSE rows[n]]

\* Lines 957-987: a parent row, then the rows of its sample points (the name
\* shown for a sample point is written "Point <idx>" here).
parent_and_points(row, points) ==
    <<("is_parent_facility" :> TRUE) @@ ("is_sample_point" :> FALSE) @@ row>> \o
    (IF row.Facility \in DOMAIN points
     THEN [idx \in DOMAIN points[row.Facility] |->
             [Facility |-> "Point " \o ToString(idx),
              Lat |-> points[row.Facility][idx].lat,
              Long |-> points[row.Facility][idx].lng,
              is_sample_point |-> TRUE, is_parent_facility |-> FALSE,
              parent_facility |-> row.Facility]]
     ELSE <<>>)

RECURSIVE reconstructed_data(_, _)
reconstructed_data(rows, points) ==
    IF rows = <<>> THEN <<>>
    ELSE parent_and_points(Head(rows), points) \o reconstructed_data(Tail(rows), points)

\* Lines 607-990: the rows of the results table.
show_results(facilities) ==
    IF ~has_sample_points(facilities)
    THEN analysis_rows([k \in DOMAIN facilities |-> facility_rows(facilities[k])[1]])
    ELSE LET data == analysis_rows(expanded_rows(facilities))
             points == sample_point_rows(data)
         IN reconstructed_data(
                with_granular_analysis(centroid_rows(data), points,
                                       granular_facility_mapping(facilities)),
                points)

\* The results page is asked for after the POST was answered, with at least
\* one facility in the session.
Call_show_results ==
    /\ response # <<>>
    /\ facility_data # <<>>
    /\ results = <<>>
    /\ results' = <<show_results(facility_data)>>
    /\ UNCHANGED <<post_data, facility_data, response, grid_vars, classify_vars,
                   cluster_vars, sampler_vars, asset_vars>>

\* Requests with a small polygon, whose area the request states itself.
ResultsPostBodies ==
    {[name |-> "Plant", archetype |-> "default archetype", lat |-> lat, lng |-> <<150>>,
      geometry |-> geometry, gridSpacing |-> spacing, areaKm2 |-> area] :
        lat \in {<<>>, <<150>>},
        geometry \in {<<>>, <<Rect(300, 300)>>, <<Rect(300, 200)>>},
        spacing \in {<<>>, <<100>>, <<37>>, <<1000>>},
        area \in {<<>>, <<7000000>>}}

\* Facilities stored earlier: one whose name has '_Point_' in it, and one with
\* the sample points of a grid of 100 m.
MarkedFacility ==
    [Facility |-> "North_Point_Depot", Lat |-> 0, Long |-> 0,
     Archetype |-> "default archetype"]
SampledFacility ==
    with_sample_points(
        [Facility |-> "North", Lat |-> 1100, Long |-> 1100, Archetype |-> "default archetype"],
        <<[lng |-> 1000, lat |-> 1000], [lng |-> 1000, lat |-> 1100]>>, 100)

\* ------------------------------------------------------------ models.Asset

\* Operations on one Asset instance.
MaxAssetOps == 3

\* dict.get('type'): <<>> for None.
geometry_type(geojson_geometry) ==
    IF "type" \in DOMAIN geojson_geometry THEN <<geojson_geometry.type>> ELSE <<>>

\* Truth value of the JSON field: None and the empty dict are false.
has_polygon_geometry(a) == a.polygon_geometry # <<>> /\ a.polygon_geometry[1] # <<>>

\* A variant that stores whatever geometry it is given.
set_polygon_from_geojson_any(a, geojson_geometry) ==
    [asset |-> [a EXCEPT !.polygon_geometry = <<geojson_geometry>>], returned |-> TRUE]

\* Lines 101-106: the instance after the call, and the value returned.
set_polygon_from_geojson(a, geojson_geometry) ==
    IF geometry_type(geojson_geometry) = <<"Polygon">>
    THEN [asset |-> [a EXCEPT !.polygon_geometry = <<geojson_geometry>>], returned |-> TRUE]
    ELSE [asset |-> a, returned |-> FALSE]

\* Lines 108-125: the mean of the ring's points without the closing one, <<>>
\* for None. The rings of the model have integral means.
calculate_polygon_centroid(a) ==
    IF ~has_polygon_geometry(a) \/ geometry_type(a.polygon_geometry[1]) # <<"Polygon">>
    THEN <<>>
    ELSE IF "coordinates" \notin DOMAIN a.polygon_geometry[1] THEN <<>>
    ELSE IF a.polygon_geometry[1].coordinates = <<>> THEN <<>>
    ELSE LET ring == a.polygon_geometry[1].coordinates[1]
             n == Len(ring) - 1
         IN IF Len(ring) < 3 THEN <<>>
            ELSE << <<SumSeq([i \in 1..n |-> ring[i][1]]) \div n,
                      SumSeq([i \in 1..n |-> ring[i][2]]) \div n>> >>

\* Lines 49-60: the fields save() sets before it writes the row.
before_save(a) ==
    IF has_polygon_geometry(a)
    THEN LET centroid == calculate_polygon_centroid(a)
         IN IF (a.latitude = 0 \/ a.longitude = 0) /\ centroid # <<>>
            THEN [a EXCEPT !.asset_type = "polygon",
                           !.latitude = centroid[1][2], !.longitude = centroid[1][1]]
            ELSE [a EXCEPT !.asset_type = "polygon"]
    ELSE [a EXCEPT !.asset_type = "point"]

\* Lines 68-95: the geojson property.
geojson(a) ==
    LET properties == [name |-> a.name, archetype |-> a.archetype,
                       asset_type |-> a.asset_type, id |-> a.id]
    IN IF a.asset_type = "polygon" /\ has_polygon_geometry(a)
       THEN [type |-> "Feature", geometry |-> a.polygon_geometry[1], properties |-> properties]
       ELSE [type |-> "Feature",
             geometry |-> [type |-> "Point", coordinates |-> <<a.longitude, a.latitude>>],
             properties |-> properties]

\* GeoJSON geometries: two polygons (closed rings), a polygon without
\* coordinates, a point, and an object without 'type'.
SquareGeometry ==
    [type |-> "Polygon",
     coordinates |-> << <<<<0, 0>>, <<4, 0>>, <<4, 4>>, <<0, 4>>, <<0, 0>>>> >>]
TriangleGeometry ==
    [type |-> "Polygon",
     coordinates |-> << <<<<10, 10>>, <<14, 10>>, <<12, 16>>, <<10, 10>>>> >>]
GeoJSONGeometries ==
    {SquareGeometry, TriangleGeometry, [type |-> "Polygon"],
     [type |-> "Point", coordinates |-> <<1, 1>>], [coordinates |-> <<1, 1>>]}

\* Asset(...): the instance as constructed, not yet saved.
NewAssets ==
    {[name |-> name, archetype |-> "building", latitude |-> lat, longitude |-> 5,
      polygon_geometry |-> geometry, asset_type |-> type, id |-> <<>>] :
        name \in {"Plant", "Depot"}, lat \in {0, 37},
        geometry \in {<<>>, <<<<>>>>, <<SquareGeometry>>}, type \in {"point", "polygon"}}

NoAsset == CHOOSE a \in NewAssets : a.name = "Plant" /\ a.latitude = 37
                                      /\ a.polygon_geometry = <<>> /\ a.asset_type = "point"

\* The record of the last operation; n counts the operations made.
NoOperation(n) == [n |-> n, op |-> "create", arg |-> <<>>, returned |-> <<>>]

Call_set_polygon_from_geojson ==
    /\ asset_op.n < MaxAssetOps
    /\ \E geojson_geometry \in GeoJSONGeometries :
          LET call == set_polygon_from_geojson(asset, geojson_geometry)
          IN /\ asset' = call.asset
             /\ asset_op' = [n |-> asset_op.n + 1, op |-> "set_polygon_from_geojson",
                             arg |-> <<geojson_geometry>>, returned |-> <<call.returned>>]
    /\ UNCHANGED <<saved_asset, grid_vars, classify_vars, cluster_vars, sampler_vars,
                   facility_vars>>

\* save(): the type and the centroid are set, and the row is written (with an
\* id, when the instance had none).
Call_save ==
    /\ asset_op.n < MaxAssetOps
    /\ asset' = [before_save(asset) EXCEPT !.id = <<1>>]
    /\ saved_asset' = <<asset'>>
    /\ asset_op' = [n |-> asset_op.n + 1, op |-> "save", arg |-> <<>>, returned |-> <<>>]
    /\ UNCHANGED <<grid_vars, classify_vars, cluster_vars, sampler_vars, facility_vars>>

\* Reading the geojson property.
Read_geojson ==
    /\ asset_op.n < MaxAssetOps
    /\ asset_op' = [n |-> asset_op.n + 1, op |-> "geojson", arg |-> <<>>,
                    returned |-> <<geojson(asset)>>]
    /\ UNCHANGED <<asset, saved_asset, grid_vars, classify_vars, cluster_vars, sampler_vars,
                   facility_vars>>

\* ---------------------------------------------------------- specifications

\* The grid generator, called on one polygon.
InitGrid ==
    /\ polygon_geometry \in Polygons
    /\ grid_calls = <<>>
    /\ classifier = "none" /\ value = <<>> /\ hazard_type = "Flood" /\ risk = "No Data"
    /\ analyzed_points = <<>> /\ grid_spacing_meters = 100 /\ consolidated = <<>>
    /\ raster_files = [p \in RasterPaths |-> MissingFile] /\ rasterio_installed = TRUE
    /\ open_datasets = {} /\ frames = [r \in Requests |-> NoFrame]
    /\ post_data = CHOOSE data \in PostBodies : data.lat = <<>> /\ data.geometry = <<>>
    /\ facility_data = <<>> /\ response = <<[success |-> FALSE]>> /\ results = <<>>
    /\ asset = NoAsset /\ saved_asset = <<>> /\ asset_op = NoOperation(MaxAssetOps)

NextGrid == Call_generate_sample_grid

SpecGrid == InitGrid /\ [][NextGrid]_vars

\* The two classifiers.
InitClassify ==
    /\ polygon_geometry = Rect(50, 50)
    /\ grid_calls = <<>>
    /\ classifier = "none" /\ value = <<>> /\ hazard_type = "Flood" /\ risk = "No Data"
    /\ analyzed_points = <<>> /\ grid_spacing_meters = 100 /\ consolidated = <<>>
    /\ raster_files = [p \in RasterPaths |-> MissingFile] /\ rasterio_installed = TRUE
    /\ open_datasets = {} /\ frames = [r \in Requests |-> NoFrame]
    /\ post_data = CHOOSE data \in PostBodies : data.lat = <<>> /\ data.geometry = <<>>
    /\ facility_data = <<>> /\ response = <<[success |-> FALSE]>> /\ results = <<>>
    /\ asset = NoAsset /\ saved_asset = <<>> /\ asset_op = NoOperation(MaxAssetOps)

NextClassify ==
    \/ Call_classify_hazard_risk
    \/ Call_classify_risk_value

SpecClassify == InitClassify /\ [][NextClassify]_vars

\* The consolidator, called on one list of classified points.
InitCluster ==
    /\ polygon_geometry = Rect(50, 50)
    /\ grid_calls = <<>>
    /\ classifier = "none" /\ value = <<>> /\ hazard_type = "Flood" /\ risk = "No Data"
    /\ analyzed_points \in SeqsUpTo(PointDicts, MaxPoints)
    /\ grid_spacing_meters \in ClusterSpacings
    /\ consolidated = <<>>
    /\ raster_files = [p \in RasterPaths |-> MissingFile] /\ rasterio_installed = TRUE
    /\ open_datasets = {} /\ frames = [r \in Requests |-> NoFrame]
    /\ post_data = CHOOSE data \in PostBodies : data.lat = <<>> /\ data.geometry = <<>>
    /\ facility_data = <<>> /\ response = <<[success |-> FALSE]>> /\ results = <<>>
    /\ asset = NoAsset /\ saved_asset = <<>> /\ asset_op = NoOperation(MaxAssetOps)

NextCluster == Call_consolidate_points_to_clusters

SpecCluster == InitCluster /\ [][NextCluster]_vars

\* The sampler and the hazard loop, run by one request.
InitSampler ==
    /\ polygon_geometry = Rect(50, 50)
    /\ grid_calls = <<>>
    /\ classifier = "none" /\ value = <<>> /\ hazard_type = "Flood" /\ risk = "No Data"
    /\ analyzed_points = <<>> /\ grid_spacing_meters = 100 /\ consolidated = <<>>
    /\ raster_files \in
          {[p \in RasterPaths |-> IF p = "flood.tif" THEN flood ELSE heat] :
              flood \in RasterFiles \cup {MissingFile, CorruptFile},
              heat \in {MissingFile, HeatFile}}
    /\ rasterio_installed \in BOOLEAN
    /\ open_datasets = {}
    /\ frames \in
          {[r \in Requests |-> IF r = 1 THEN f ELSE NoFrame] :
              f \in QueryFrames(SamplePointLists)
                    \cup QueryAllFrames(SamplePointLists,
                                        {<<"Flood", "Heat">>, <<"Heat", "Flood">>},
                                        RasterConfigs)}
    /\ post_data = CHOOSE data \in PostBodies : data.lat = <<>> /\ data.geometry = <<>>
    /\ facility_data = <<>> /\ response = <<[success |-> FALSE]>> /\ results = <<>>
    /\ asset = NoAsset /\ saved_asset = <<>> /\ asset_op = NoOperation(MaxAssetOps)

NextRequests ==
    \E r \in Requests :
        \/ Call_query_hazard_for_points(r)
        \/ Open_raster(r)
        \/ Sample_points(r)
        \/ Process_point(r)
        \/ Return_results(r)
        \/ Call_query_all_hazards_for_points(r)
        \/ Next_hazard(r)
        \/ Store_hazard_results(r)
        \/ Consolidate_request_points(r)

SpecSampler == InitSampler /\ [][NextRequests]_vars

\* Two requests side by side, on rasters that declare the sentinel.
ConcurrentFiles ==
    {[exists |-> TRUE, readable |-> TRUE, nodata |-> <<Number(-99990)>>, cells |-> c] :
        c \in [SamplePositions ->
                 {[raises |-> TRUE, bands |-> <<>>],
                  [raises |-> FALSE, bands |-> <<Number(-99990)>>],
                  [raises |-> FALSE, bands |-> <<Number(20)>>]}]}

ConcurrentConfigs ==
    {[name \in SamplerHazards |-> IF name = "Flood" THEN <<"flood.tif">> ELSE <<"heat.tif">>]}

InitConcurrent ==
    /\ polygon_geometry = Rect(50, 50)
    /\ grid_calls = <<>>
    /\ classifier = "none" /\ value = <<>> /\ hazard_type = "Flood" /\ risk = "No Data"
    /\ analyzed_points = <<>> /\ grid_spacing_meters = 100 /\ consolidated = <<>>
    /\ raster_files \in
          {[p \in RasterPaths |-> IF p = "flood.tif" THEN flood ELSE HeatFile] :
              flood \in ConcurrentFiles}
    /\ rasterio_installed = TRUE
    /\ open_datasets = {}
    /\ frames \in
          {[r \in Requests |-> IF r = 1 THEN f ELSE g] :
              f \in QueryAllFrames(SamplePointLists, {<<"Flood">>}, ConcurrentConfigs),
              g \in QueryFrames(SamplePointLists)
                    \cup QueryAllFrames(SamplePointLists, {<<"Flood">>}, ConcurrentConfigs)}
    /\ post_data = CHOOSE data \in PostBodies : data.lat = <<>> /\ data.geometry = <<>>
    /\ facility_data = <<>> /\ response = <<[success |-> FALSE]>> /\ results = <<>>
    /\ asset = NoAsset /\ saved_asset = <<>> /\ asset_op = NoOperation(MaxAssetOps)

SpecConcurrent == InitConcurrent /\ [][NextRequests]_vars

\* add_facility, called once on a session.
InitFacility ==
    /\ polygon_geometry = Rect(50, 50)
    /\ grid_calls = <<>>
    /\ classifier = "none" /\ value = <<>> /\ hazard_type = "Flood" /\ risk = "No Data"
    /\ analyzed_points = <<>> /\ grid_spacing_meters = 100 /\ consolidated = <<>>
    /\ raster_files = [p \in RasterPaths |-> MissingFile] /\ rasterio_installed = TRUE
    /\ open_datasets = {} /\ frames = [r \in Requests |-> NoFrame]
    /\ post_data \in PostBodies
    /\ facility_data \in {<<>>, <<ExistingFacility>>}
    /\ response = <<>> /\ results = <<>>
    /\ asset = NoAsset /\ saved_asset = <<>> /\ asset_op = NoOperation(MaxAssetOps)

NextFacility == Call_add_facility

SpecFacility == InitFacility /\ [][NextFacility]_vars

\* One Asset instance and its row.
InitAsset ==
    /\ polygon_geometry = Rect(50, 50)
    /\ grid_calls = <<>>
    /\ classifier = "none" /\ value = <<>> /\ hazard_type = "Flood" /\ risk = "No Data"
    /\ analyzed_points = <<>> /\ grid_spacing_meters = 100 /\ consolidated = <<>>
    /\ raster_files = [p \in RasterPaths |-> MissingFile] /\ rasterio_installed = TRUE
    /\ open_datasets = {} /\ frames = [r \in Requests |-> NoFrame]
    /\ post_data = CHOOSE data \in PostBodies : data.lat = <<>> /\ data.geometry = <<>>
    /\ facility_data = <<>> /\ response = <<[success |-> FALSE]>> /\ results = <<>>
    /\ asset \in NewAssets /\ saved_asset = <<>> /\ asset_op = NoOperation(0)

NextAsset ==
    \/ Call_set_polygon_from_geojson
    \/ Call_save
    \/ Read_geojson

SpecAsset == InitAsset /\ [][NextAsset]_vars

\* add_facility, then the results page.
InitResults ==
    /\ polygon_geometry = Rect(50, 50)
    /\ grid_calls = <<>>
    /\ classifier = "none" /\ value = <<>> /\ hazard_type = "Flood" /\ risk = "No Data"
    /\ analyzed_points = <<>> /\ grid_spacing_meters = 100 /\ consolidated = <<>>
    /\ raster_files = [p \in RasterPaths |-> MissingFile] /\ rasterio_installed = TRUE
    /\ open_datasets = {} /\ frames = [r \in Requests |-> NoFrame]
    /\ post_data \in ResultsPostBodies
    /\ facility_data \in {<<>>, <<ExistingFacility>>, <<MarkedFacility>>, <<SampledFacility>>,
                          <<SampledFacility, MarkedFacility>>}
    /\ response = <<>> /\ results = <<>>
    /\ asset = NoAsset /\ saved_asset = <<>> /\ asset_op = NoOperation(MaxAssetOps)

NextResults ==
    \/ Call_add_facility
    \/ Call_show_results

SpecResults == InitResults /\ [][NextResults]_vars

\* hazard_raster_config.HAZARD_RASTERS: the hazard names of the granular
\* analysis and the raster file of each.
GranularHazardNames ==
    {"Flood", "Heat", "Water Stress", "Sea Level Rise", "Storm Surge",
     "Rainfall Induced Landslide", "Tropical Cyclones"}

configured_raster_path(hazard_name) ==
    CASE hazard_name = "Flood" -> "PH_Flood_100year_UTM_ProjectNOAH_Unmasked.tif"
      [] hazard_name = "Heat" -> "PH_DaysOver35degC_ANN_2021-2025.tif"
      [] hazard_name = "Water Stress" -> "PH_WaterStress_Baseline.tif"
      [] hazard_name = "Sea Level Rise" -> "PH_LECZ_elevation.tif"
      [] hazard_name = "Storm Surge" -> "PH_StormSurge_Current.tif"
      [] hazard_name = "Rainfall Induced Landslide" -> "PH_Landslide_Baseline.tif"
      [] hazard_name = "Tropical Cyclones" -> "PH_TropicalCyclone_100yr.tif"

GranularRasterPaths == {configured_raster_path(name) : name \in GranularHazardNames}

\* The dict of paths handed to query_all_hazards_for_points.
GranularRasterConfig == [name \in GranularHazardNames |-> <<configured_raster_path(name)>>]

\* Raster values in tenths: 0.3, 2.0 and 100.
GranularValues == {3, 20, 1000}

\* A readable raster without nodata value: v at latitude 0 and 0.7 elsewhere.
GranularFile(v) ==
    [exists |-> TRUE, readable |-> TRUE, nodata |-> <<>>,
     cells |-> [pos \in SamplePositions |->
                  [raises |-> FALSE,
                   bands |-> <<IF pos.lat = 0 THEN Number(v) ELSE Number(7)>>]]]

\* One request over the configured rasters: every hazard of the configuration
\* is queried, alone, and every raster is sampled.
InitGranular ==
    /\ polygon_geometry = Rect(50, 50)
    /\ grid_calls = <<>>
    /\ classifier = "none" /\ value = <<>> /\ hazard_type = "Flood" /\ risk = "No Data"
    /\ analyzed_points = <<>> /\ grid_spacing_meters = 100 /\ consolidated = <<>>
    /\ raster_files \in {[p \in GranularRasterPaths |-> GranularFile(v)] : v \in GranularValues}
    /\ rasterio_installed = TRUE
    /\ open_datasets = {}
    /\ frames \in
          {[r \in Requests |-> IF r = 1 THEN f ELSE NoFrame] :
              f \in {NewFrame("query_hazard_for_points", points, path, "Flood", <<>>,
                               GranularRasterConfig) :
                        points \in SamplePointLists, path \in GranularRasterPaths}
                    \cup {NewFrame("query_all_hazards_for_points", points,
                                   configured_raster_path("Flood"), "Unknown", <<name>>,
                                   GranularRasterConfig) :
                             points \in SamplePointLists, name \in GranularHazardNames}}
    /\ post_data = CHOOSE data \in PostBodies : data.lat = <<>> /\ data.geometry = <<>>
    /\ facility_data = <<>> /\ response = <<[success |-> FALSE]>> /\ results = <<>>
    /\ asset = NoAsset /\ saved_asset = <<>> /\ asset_op = NoOperation(MaxAssetOps)

SpecGranular == InitGranular /\ [][NextRequests]_vars

\* Point dicts of one hazard whose value can be missing: classify_hazard_risk
\* gives 'No Data' for None and NaN (lines 178-179).
NoDataPointDicts ==
    {[lat |-> 10 * i, lng |-> 0, risks |-> <<<<"Flood_risk", tier>>>>] :
        i \in 0..1, tier \in {"Low", "High", "No Data"}}

\* Consolidation of points some of which have no data.
InitDistribution ==
    /\ polygon_geometry = Rect(50, 50)
    /\ grid_calls = <<>>
    /\ classifier = "none" /\ value = <<>> /\ hazard_type = "Flood" /\ risk = "No Data"
    /\ analyzed_points \in SeqsUpTo(NoDataPointDicts, MaxPoints)
    /\ grid_spacing_meters \in ClusterSpacings
    /\ consolidated = <<>>
    /\ raster_files = [p \in RasterPaths |-> MissingFile] /\ rasterio_installed = TRUE
    /\ open_datasets = {} /\ frames = [r \in Requests |-> NoFrame]
    /\ post_data = CHOOSE data \in PostBodies : data.lat = <<>> /\ data.geometry = <<>>
    /\ facility_data = <<>> /\ response = <<[success |-> FALSE]>> /\ results = <<>>
    /\ asset = NoAsset /\ saved_asset = <<>> /\ asset_op = NoOperation(MaxAssetOps)

NextDistribution == Call_consolidate_points_to_clusters

SpecDistribution == InitDistribution /\ [][NextDistribution]_vars

\* ------------------------------------------------- claims: cluster consolidator

\* The call returned through the success path (lines 384-391).
Succeeded == consolidated # <<>> /\ consolidated[1].statistics # <<>>

Members(cluster) == Range(cluster.all_points)

\* C1 (cluster conservation): after every call that does not fail, the
\* point_count values of the returned clusters add up to
\* statistics.total_points, which is the number of input points.
C1_ClusterConservation ==
    Succeeded =>
        LET r == consolidated[1]
        IN /\ SumSeq([c \in DOMAIN r.clusters |-> r.clusters[c].point_count])
                 = r.statistics.total_points
           /\ r.statistics.total_points = Len(analyzed_points)

\* A successful call on three points of which two share a profile and a cluster.
C1_Witness ==
    /\ Succeeded
    /\ Len(analyzed_points) = 3
    /\ Len(consolidated[1].clusters) = 2
    /\ \E c \in DOMAIN consolidated[1].clusters : consolidated[1].clusters[c].point_count = 2

\* The position of a risk key in alphabetical order.
KeyRank(k) == CHOOSE i \in DOMAIN SortedRiskKeys : SortedRiskKeys[i] = k

\* profile is the point's '<key>:<tier>' items, each once, in ascending key order.
IsProfileOf(profile, point) ==
    /\ Len(profile) = Len(point.risks)
    /\ Range(profile) = Range(point.risks)
    /\ \A i, j \in DOMAIN profile : i < j => KeyRank(profile[i][1]) < KeyRank(profile[j][1])

\* C2 (profile homogeneity): in every result, the risk_profile of a cluster is
\* the risk profile (items sorted by key) of each of its members, and
\* point_count is the number of members.
C2_ProfileHomogeneity ==
    consolidated # <<>> =>
        \A c \in DOMAIN consolidated[1].clusters :
            LET cluster == consolidated[1].clusters[c]
            IN /\ cluster.point_count = Len(cluster.all_points)
               /\ \A m \in Members(cluster) :
                     IsProfileOf(cluster.risk_profile, analyzed_points[m])

\* A cluster of two members whose risk items were inserted in the order Heat, Flood.
C2_Witness ==
    /\ Succeeded
    /\ \E c \in DOMAIN consolidated[1].clusters :
          LET cluster == consolidated[1].clusters[c]
          IN /\ cluster.point_count = 2
             /\ \A m \in Members(cluster) :
                   risk_keys(analyzed_points[m]) = <<"Heat_risk", "Flood_risk">>

\* Same '_risk' items, whatever their insertion order.
SameProfile(p, q) == Range(p.risks) = Range(q.risks)

\* Two input points of one profile at most 2 x grid_spacing_meters units apart.
Linked(i, j) ==
    /\ SameProfile(analyzed_points[i], analyzed_points[j])
    /\ SquaredDistance(analyzed_points[i], analyzed_points[j])
          <= (2 * grid_spacing_meters) * (2 * grid_spacing_meters)

\* The points a chain of links reaches from the points of S.
RECURSIVE ChainClosure(_)
ChainClosure(S) ==
    LET T == S \cup {j \in DOMAIN analyzed_points : \E i \in S : Linked(i, j)}
    IN IF T = S THEN S ELSE ChainClosure(T)

ClustersOf(i) ==
    {c \in DOMAIN consolidated[1].clusters : i \in Members(consolidated[1].clusters[c])}

\* C3 (no-noise connectivity clustering): after a successful call every input
\* point is a member of exactly one cluster, once, and two points share a
\* cluster exactly when a chain of same-profile points, consecutive ones at
\* most epsilon = 2 x grid_spacing_meters / 111000 degrees apart, joins them.
C3_ConnectivityClustering ==
    Succeeded =>
        /\ \A i \in DOMAIN analyzed_points :
              /\ Cardinality(ClustersOf(i)) = 1
              /\ \A c \in ClustersOf(i) :
                    Cardinality({a \in DOMAIN consolidated[1].clusters[c].all_points :
                                   consolidated[1].clusters[c].all_points[a] = i}) = 1
        /\ \A i, j \in DOMAIN analyzed_points :
              (ClustersOf(i) = ClustersOf(j)) <=> (j \in ChainClosure({i}))

\* Two points share a cluster only through a third one, a point of the same
\* profile stays outside it, and one link is exactly epsilon long.
C3_Witness ==
    /\ Succeeded
    /\ \E i, j \in DOMAIN analyzed_points :
          /\ ClustersOf(i) = ClustersOf(j)
          /\ ~Linked(i, j)
    /\ \E i, j \in DOMAIN analyzed_points :
          /\ Linked(i, j)
          /\ SquaredDistance(analyzed_points[i], analyzed_points[j])
                = (2 * grid_spacing_meters) * (2 * grid_spacing_meters)

\* ---------------------------------------------------- claims: grid generator

\* The point (x, y) lies inside the polygon or on its boundary.
InsideOrOnBoundary(polygon, p) ==
    /\ PointInRing(p, polygon.exterior) \/ PointOnRing(p, polygon.exterior)
    /\ \A h \in DOMAIN polygon.holes : ~PointInRing(p, polygon.holes[h])

OnBoundary(polygon, p) ==
    \/ PointOnRing(p, polygon.exterior)
    \/ \E h \in DOMAIN polygon.holes : PointOnRing(p, polygon.holes[h])

\* The spacing a call works with, and the ladder points it visits.
EffectiveSpacing(call) ==
    IF call.grid_spacing_meters \in valid_spacings THEN call.grid_spacing_meters ELSE 100

LadderPoints(call) ==
    {<<x, y>> : x \in ladder_x(polygon_geometry, EffectiveSpacing(call)),
                y \in ladder_y(polygon_geometry, EffectiveSpacing(call))}

Returned(call) == {<<pt.lng, pt.lat>> : pt \in Range(call.sample_points)}

\* C4 (containment): every point a call returns lies inside the polygon or on
\* its boundary, and so inside its bounding box.
C4_Containment ==
    LET b == polygon_bounds(polygon_geometry)
    IN \A c \in DOMAIN grid_calls :
          \A p \in Returned(grid_calls[c]) :
              /\ InsideOrOnBoundary(polygon_geometry, p)
              /\ b[1] <= p[1] /\ p[1] <= b[3] /\ b[2] <= p[2] /\ p[2] <= b[4]

\* A call that returned points although some ladder point lies outside the polygon.
C4_Witness ==
    \E c \in DOMAIN grid_calls :
        /\ Cardinality(Returned(grid_calls[c])) >= 2
        /\ \E p \in LadderPoints(grid_calls[c]) : ~InsideOrOnBoundary(polygon_geometry, p)

\* C5 as stated (boundary-inclusive test): every ladder point inside the
\* polygon or on its boundary is part of the output.
C5_BoundaryInclusive ==
    \A c \in DOMAIN grid_calls :
        LET returned == Returned(grid_calls[c])
        IN \A p \in LadderPoints(grid_calls[c]) :
              InsideOrOnBoundary(polygon_geometry, p) => p \in returned

\* C5 amended (strict containment test): a ladder point is part of the output
\* exactly when it lies inside the polygon and not on its boundary; a ladder
\* point on an edge or a vertex, such as the ladder origin of an axis-aligned
\* rectangle, is left out.
C5_StrictInterior ==
    \A c \in DOMAIN grid_calls :
        LET returned == Returned(grid_calls[c])
        IN \A p \in LadderPoints(grid_calls[c]) :
              p \in returned
                  <=> (InsideOrOnBoundary(polygon_geometry, p) /\ ~OnBoundary(polygon_geometry, p))

\* A call on the rectangle whose origin is a ladder point on the boundary, which
\* visited a ladder point on an edge that is no vertex, and returned points.
C5_Witness ==
    \E c \in DOMAIN grid_calls :
        /\ polygon_geometry = Rect(150, 150)
        /\ <<0, 0>> \in LadderPoints(grid_calls[c])
        /\ <<0, 0>> \notin Returned(grid_calls[c])
        /\ <<0, 100>> \in LadderPoints(grid_calls[c]) \ Returned(grid_calls[c])
        /\ <<100, 100>> \in Returned(grid_calls[c])

\* C6 (spacing leniency): a call with a spacing outside {10, 50, 100, 500, 1000}
\* returns the same ordered grid as a call on the same polygon with spacing 100.
C6_SpacingLeniency ==
    \A c, d \in DOMAIN grid_calls :
        (grid_calls[c].grid_spacing_meters \notin {10, 50, 100, 500, 1000}
            /\ grid_calls[d].grid_spacing_meters = 100)
        => grid_calls[c].sample_points = grid_calls[d].sample_points

\* A call with spacing 37 and a call with spacing 100, both returning points.
C6_Witness ==
    \E c, d \in DOMAIN grid_calls :
        /\ grid_calls[c].grid_spacing_meters = 37
        /\ grid_calls[d].grid_spacing_meters = 100
        /\ grid_calls[c].sample_points # <<>>

\* Strictly ascending in (lng, lat): lng ascending, lat ascending within equal
\* lng.  Each point precedes its successor, hence every later point.
LadderOrdered(points) ==
    \A a \in DOMAIN points :
        a < Len(points) =>
            \/ points[a].lng < points[a + 1].lng
            \/ points[a].lng = points[a + 1].lng /\ points[a].lat < points[a + 1].lat

\* C7 (determinism and order): two calls with the same polygon and spacing
\* return the same sequence, and every returned sequence is in ascending ladder
\* order (longitude first, then latitude) without a repeated coordinate pair.
C7_DeterminismAndOrder ==
    /\ \A c, d \in DOMAIN grid_calls :
          grid_calls[c].grid_spacing_meters = grid_calls[d].grid_spacing_meters
              => grid_calls[c].sample_points = grid_calls[d].sample_points
    /\ \A c \in DOMAIN grid_calls : LadderOrdered(grid_calls[c].sample_points)

\* Two calls with the same spacing whose result spans several longitudes and latitudes.
C7_Witness ==
    /\ Len(grid_calls) = 2
    /\ grid_calls[1].grid_spacing_meters = grid_calls[2].grid_spacing_meters
    /\ Cardinality({pt.lng : pt \in Range(grid_calls[2].sample_points)}) >= 2
    /\ Cardinality({pt.lat : pt \in Range(grid_calls[2].sample_points)}) >= 2

\* -------------------------------------------------------- claims: classifiers

\* The tier the normal-scale rule of the specification gives: a value equal to
\* a threshold falls in the lower tier.
NormalScaleRule(v, t) ==
    IF v <= t.low THEN "Low"
    ELSE IF v <= t.medium THEN "Medium"
    ELSE IF v <= t.high THEN "High"
    ELSE "Very High"

\* C8 as stated (normal-scale rule with boundaries): for Flood, Heat, Water
\* Stress, Storm Surge and Tropical Cyclones, classify_hazard_risk gives Low for
\* v <= low, Medium for low < v <= medium, High for medium < v <= high and Very
\* High for v > high, with the hazard's own triple.
C8_NormalScaleBoundaries ==
    (classifier = "classify_hazard_risk" /\ hazard_type \in NormalScaleHazards /\ value # <<>>)
        => risk = NormalScaleRule(value[1], hazard_thresholds(hazard_type))

\* C9 (flood banding): classify_hazard_risk(v, 'Flood') is Low below 0.5,
\* Medium strictly between 0.5 and 1.5, High strictly between 1.5 and 2.5 and
\* Very High above 2.5.
C9_FloodBanding ==
    (classifier = "classify_hazard_risk" /\ hazard_type = "Flood" /\ value # <<>>)
        => LET v == value[1]
           IN /\ v < 5 => risk = "Low"
              /\ (5 < v /\ v < 15) => risk = "Medium"
              /\ (15 < v /\ v < 25) => risk = "High"
              /\ v > 25 => risk = "Very High"

\* Flood was classified at a value between the High threshold and 3.0.
C9_Witness ==
    /\ classifier = "classify_hazard_risk"
    /\ hazard_type = "Flood"
    /\ value = <<26>>
    /\ risk = "Very High"

\* C10 as stated (reversed-scale landslide): classify_hazard_risk(v, 'Landslide')
\* follows the triple (low 1.5, medium 1.0, high 0.5) of HAZARD_RASTERS:
\* Low for v >= 1.5, Medium for 1.0 <= v < 1.5, High for 0.5 <= v < 1.0 and
\* Very High for v < 0.5.
C10_LandslideReversed ==
    (classifier = "classify_hazard_risk" /\ hazard_type = "Landslide" /\ value # <<>>)
        => LET v == value[1]
               t == HAZARD_RASTERS("landslide_baseline").thresholds
           IN risk = IF v >= t.low THEN "Low"
                     ELSE IF v >= t.medium THEN "Medium"
                     ELSE IF v >= t.high THEN "High"
                     ELSE "Very High"

\* C11 (no-data precedence): classify_hazard_risk(None, hazard_type) is
\* 'No Data' for every hazard_type, known or not, and every non-null value gets
\* one of Low, Medium, High, Very High.
C11_NoDataPrecedence ==
    classifier = "classify_hazard_risk"
        => /\ value = <<>> => risk = "No Data"
           /\ value # <<>> => risk \in Tiers

\* None was classified for a hazard name the function has no branch for.
C11_Witness ==
    /\ classifier = "classify_hazard_risk"
    /\ hazard_type = "Wildfire"
    /\ value = <<>>
    /\ risk = "No Data"

\* The names classify_hazard_risk has no branch for.
UnrecognisedHazards == HazardTypes \ (NormalScaleHazards \cup ReversedScaleHazards)

\* C12 (unknown-hazard fallback): a non-null value of a hazard name without a
\* branch is classified with the default triple (0.3, 0.6, 0.9) on the normal
\* scale: Low below 0.3, Medium between 0.3 and 0.6, High between 0.6 and 0.9,
\* Very High above 0.9, and always a tier.
C12_UnknownHazardFallback ==
    (classifier = "classify_hazard_risk" /\ hazard_type \in UnrecognisedHazards
        /\ value # <<>>)
        => LET v == value[1]
           IN /\ risk \in Tiers
              /\ v < 3 => risk = "Low"
              /\ (3 < v /\ v < 6) => risk = "Medium"
              /\ (6 < v /\ v < 9) => risk = "High"
              /\ v > 9 => risk = "Very High"

\* 0.7 was classified for 'Rainfall Induced Landslide', the name the raster
\* configuration uses, which has no branch.
C12_Witness ==
    /\ classifier = "classify_hazard_risk"
    /\ hazard_type = "Rainfall Induced Landslide"
    /\ value = <<7>>
    /\ risk = "High"

\* ------------------------------------------------------- claims: the sampler

\* Request r is back from a call of query_hazard_for_points: hazard_results
\* holds what the call returned, and the arguments are still in the frame.
QueryReturned(r) ==
    /\ frames[r].hazard_results # <<>>
    /\ \/ frames[r].pc = "store"
       \/ frames[r].pc = "done" /\ frames[r].entry = "query_hazard_for_points"

\* The raster file behind the call of request r, and the cell read for a point.
QueriedFile(r) == raster_files[frames[r].hazard_raster_path]
QueriedCell(r, i) == QueriedFile(r).cells[coords(frames[r].sample_points)[i]]

\* The file of the call exists and opens ...
RasterOpens(r) ==
    rasterio_installed /\ QueriedFile(r).exists /\ QueriedFile(r).readable

\* ... and the read of every point of the call succeeds.
RasterReadable(r) ==
    /\ RasterOpens(r)
    /\ \A i \in DOMAIN frames[r].sample_points : ~QueriedCell(r, i).raises

\* C13 (sampler arity and order): a call of query_hazard_for_points with a
\* non-empty point list and an existing raster that is read without an error
\* returns one result per input point, in input order: result i carries lat and
\* lng of point i and the hazard name of the call.
C13_SamplerArityAndOrder ==
    \A r \in Requests :
        (QueryReturned(r) /\ frames[r].sample_points # <<>> /\ RasterReadable(r))
            => LET f == frames[r]
                   res == f.hazard_results[1]
               IN /\ Len(res) = Len(f.sample_points)
                  /\ \A i \in DOMAIN res :
                        /\ res[i].lat = f.sample_points[i].lat
                        /\ res[i].lng = f.sample_points[i].lng
                        /\ res[i].hazard = f.hazard_name

\* A call on two different points returned, the northern point first, with the
\* two values of the raster.
C13_Witness ==
    /\ QueryReturned(1) /\ RasterReadable(1)
    /\ Len(frames[1].sample_points) = 2
    /\ frames[1].sample_points[1].lat = 10 /\ frames[1].sample_points[2].lat = 0
    /\ Len(frames[1].hazard_results[1]) = 2
    /\ frames[1].hazard_results[1][1].value = <<20>>
    /\ frames[1].hazard_results[1][2].value = <<3>>

\* The sampled value of a cell is the declared sentinel, or NaN, or the
\* processing of the cell failed.
SampledNoData(file, cell) ==
    \/ cell.bands = <<>>
    \/ file.nodata # <<>> /\ cell.bands[1] = file.nodata[1]
    \/ cell.bands[1] = NaN

\* The hazard is queried (it has a configured raster that opens) and the raster
\* holds its declared sentinel at every sample point of request r.
AllSentinel(r, name) ==
    LET f == frames[r]
    IN /\ f.hazard_raster_config[name] # <<>>
       /\ LET file == raster_files[f.hazard_raster_config[name][1]]
          IN /\ rasterio_installed /\ file.exists /\ file.readable
             /\ file.nodata # <<>>
             /\ \A i \in DOMAIN f.sample_points :
                   LET cell == file.cells[coords(f.sample_points)[i]]
                   IN ~cell.raises /\ cell.bands = <<file.nodata[1]>>

\* C14 (no-data normalisation): in the results of query_hazard_for_points a
\* value is null exactly when the sampled value is the raster's declared
\* sentinel or NaN or the point's processing failed, and is the sampled number
\* otherwise; and when the raster of a selected hazard holds the sentinel at
\* every sample point, every point is classified 'No Data' for that hazard and
\* every cluster of the consolidation carries 'No Data' in its profile.
C14_NoDataNormalisation ==
    \A r \in Requests :
        /\ (QueryReturned(r) /\ frames[r].hazard_results[1] # <<>>)
              => LET res == frames[r].hazard_results[1]
                 IN \A i \in DOMAIN res :
                       /\ res[i].value = <<>> <=> SampledNoData(QueriedFile(r), QueriedCell(r, i))
                       /\ res[i].value # <<>> => res[i].value[1] = QueriedCell(r, i).bands[1][2]
        /\ (frames[r].pc = "done" /\ frames[r].entry = "query_all_hazards_for_points")
              => \A h \in DOMAIN frames[r].selected_hazards :
                    LET name == frames[r].selected_hazards[h]
                        points == frames[r].output[1]
                        clusters == frames[r].consolidated[1].clusters
                    IN AllSentinel(r, name)
                          => /\ \A i \in DOMAIN points :
                                   /\ <<name \o "_value", <<>>>> \in Range(points[i].values)
                                   /\ risk_of(points[i], name \o "_risk") = "No Data"
                             /\ \A i \in DOMAIN points :
                                   \E c \in DOMAIN clusters : i \in Range(clusters[c].all_points)
                             /\ \A c \in DOMAIN clusters :
                                   <<name \o "_risk", "No Data">>
                                       \in Range(clusters[c].risk_profile)

\* Two points were sampled from a flood raster that holds the sentinel at both,
\* and were consolidated.
C14_Witness ==
    /\ frames[1].pc = "done"
    /\ frames[1].entry = "query_all_hazards_for_points"
    /\ Len(frames[1].sample_points) = 2
    /\ "Flood" \in Range(frames[1].selected_hazards)
    /\ AllSentinel(1, "Flood")
    /\ frames[1].consolidated[1].clusters # <<>>

\* C15 as stated (per-point failure isolation): when the raster lookup of one
\* point of a call fails, the call still returns one entry per input point,
\* the failed point's value is null, and every other point keeps its sampled
\* value.
C15_PerPointFailureIsolation ==
    \A r \in Requests :
        (/\ QueryReturned(r)
         /\ RasterOpens(r)
         /\ \E i \in DOMAIN frames[r].sample_points : QueriedCell(r, i).raises)
            => LET f == frames[r]
                   res == f.hazard_results[1]
               IN /\ Len(res) = Len(f.sample_points)
                  /\ \A i \in DOMAIN res :
                        IF QueriedCell(r, i).raises THEN res[i].value = <<>>
                        ELSE res[i] = process_point(QueriedCell(r, i).bands, QueriedFile(r).nodata,
                                                    f.sample_points[i], f.hazard_name)

\* dict.get on an insertion-ordered dict: <<>> when the key is absent, <<v>> otherwise.
dict_get(items, k) ==
    IF \E j \in DOMAIN items : items[j][1] = k
    THEN <<items[CHOOSE j \in DOMAIN items : items[j][1] = k][2]>>
    ELSE <<>>

\* C16 (missing raster degrades gracefully): query_hazard_for_points returns
\* the empty list when the raster path does not exist; and
\* query_all_hazards_for_points returns one record per sample point, in which a
\* selected hazard without a configured or existing raster has left nothing,
\* and every other selected hazard has the value and the risk tier it has when
\* it is the only hazard selected.
C16_MissingRasterDegrades ==
    \A r \in Requests :
        /\ (QueryReturned(r) /\ ~QueriedFile(r).exists) => frames[r].hazard_results[1] = <<>>
        /\ (/\ frames[r].entry = "query_all_hazards_for_points"
            /\ frames[r].output # <<>>
            /\ frames[r].sample_points # <<>>)
              => LET f == frames[r]
                     points == f.output[1]
                 IN /\ Len(points) = Len(f.sample_points)
                    /\ \A h \in DOMAIN f.selected_hazards :
                          LET name == f.selected_hazards[h]
                              alone == query_all_hazards_for_points(
                                           raster_files, rasterio_installed, f.sample_points,
                                           <<name>>, f.hazard_raster_config)
                          IN \A i \in DOMAIN points :
                                /\ points[i].lat = f.sample_points[i].lat
                                /\ points[i].lng = f.sample_points[i].lng
                                /\ dict_get(points[i].values, name \o "_value")
                                      = dict_get(alone[i].values, name \o "_value")
                                /\ dict_get(points[i].risks, name \o "_risk")
                                      = dict_get(alone[i].risks, name \o "_risk")
                                /\ hazard_skipped(raster_files, f.hazard_raster_config, name)
                                      => dict_get(points[i].risks, name \o "_risk") = <<>>

\* Heat was selected first and has no raster file; Flood was sampled at two
\* points and recorded.
C16_Witness ==
    /\ frames[1].entry = "query_all_hazards_for_points"
    /\ frames[1].output # <<>>
    /\ frames[1].selected_hazards = <<"Heat", "Flood">>
    /\ frames[1].hazard_raster_config["Heat"] = <<"heat.tif">>
    /\ ~raster_files["heat.tif"].exists
    /\ Len(frames[1].output[1]) = 2
    /\ dict_get(frames[1].output[1][1].risks, "Flood_risk") = <<"High">>
    /\ dict_get(frames[1].output[1][1].risks, "Heat_risk") = <<>>

\* Request r is inside the with block of query_hazard_for_points.
InWithBlock(r) == frames[r].pc \in {"sample", "process"}

\* C17 (scoped raster handle): a call of query_hazard_for_points opens the
\* raster at most once, and a request that is not inside the with block of a
\* call holds no open handle, whichever way the call ended; when no request is
\* inside a call, no handle is open.
C17_ScopedRasterHandle ==
    /\ \A r \in Requests :
          /\ frames[r].opens <= 1
          /\ ~InWithBlock(r)
                => /\ frames[r].src = <<>>
                   /\ \A handle \in open_datasets : handle.owner # r
    /\ (\A r \in Requests : ~InWithBlock(r)) => open_datasets = {}

\* The second call of a request ended in the batch error branch after it had
\* opened its raster; the first call had returned normally.
C17_Witness ==
    /\ frames[1].pc = "store"
    /\ frames[1].h = 2
    /\ frames[1].opens = 1
    /\ frames[1].hazard_results = <<<<>>>>
    /\ RasterOpens(1)
    /\ frames[1].analyzed_points[1].risks # <<>>
    /\ open_datasets = {}

\* What request r gets when it runs alone: the result of its call as a function
\* of its own arguments and the files.
AloneQuery(r) ==
    query_hazard_for_points(raster_files, rasterio_installed, frames[r].sample_points,
                            frames[r].hazard_raster_path, frames[r].hazard_name)
AloneQueryAll(r) ==
    query_all_hazards_for_points(raster_files, rasterio_installed, frames[r].sample_points,
                                 frames[r].selected_hazards, frames[r].hazard_raster_config)

\* C18 (concurrent independence): in every interleaving of the requests, each
\* request ends with the results, the classified points and the clusters it
\* gets when it runs alone, and the handle a request has opened stays open
\* until the request itself closes it.
C18_ConcurrentIndependence ==
    \A r \in Requests :
        /\ frames[r].src # <<>> => frames[r].src[1] \in open_datasets
        /\ (frames[r].pc = "done" /\ frames[r].entry = "query_hazard_for_points")
              => frames[r].hazard_results[1] = AloneQuery(r)
        /\ (frames[r].pc = "done" /\ frames[r].entry = "query_all_hazards_for_points")
              => /\ frames[r].output[1] = with_profiles(AloneQueryAll(r))
                 /\ frames[r].consolidated[1]
                       = consolidate_points_to_clusters(AloneQueryAll(r),
                                                        frames[r].grid_spacing_meters)

\* Two requests have sampled the same flood raster and both are done, each with
\* its own non-empty results.
C18_Witness ==
    /\ \A r \in Requests : frames[r].pc = "done"
    /\ frames[1].consolidated[1].clusters # <<>>
    /\ frames[1].output[1][1].risks # <<>>
    /\ frames[2].entry = "query_hazard_for_points"
    /\ frames[2].hazard_raster_path = "flood.tif"
    /\ frames[2].hazard_results[1] # <<>>
    /\ frames[1].sample_points # frames[2].sample_points

\* ------------------------------------------- claims: failure semantics

\* The point lists the body of consolidate_points_to_clusters fails on: a point
\* without 'lat' or 'lng', or a point without the risk key the summary counts
\* (the first risk key of the first point).
MalformedPoints(points) ==
    \/ \E i \in DOMAIN points : "lat" \notin DOMAIN points[i] \/ "lng" \notin DOMAIN points[i]
    \/ /\ points # <<>>
       /\ points[1].risks # <<>>
       /\ \E i \in DOMAIN points :
             \A j \in DOMAIN points[i].risks : points[i].risks[j][1] # points[1].risks[1][1]

\* C19 (consolidation failure semantics): every call of
\* consolidate_points_to_clusters returns a dict with clusters and statistics,
\* and for an empty list and for a list with a malformed point the dict is
\* exactly {clusters: [], statistics: {}}.
C19_ConsolidationFailureSemantics ==
    consolidated # <<>>
        => /\ DOMAIN consolidated[1] = {"clusters", "statistics"}
           /\ (analyzed_points = <<>> \/ MalformedPoints(analyzed_points))
                 => /\ consolidated[1].clusters = <<>>
                    /\ consolidated[1].statistics = <<>>

\* The call was made on three points, the last of them without 'lat'.
C19_Witness ==
    /\ consolidated # <<>>
    /\ Len(analyzed_points) = 3
    /\ "lat" \in DOMAIN analyzed_points[1]
    /\ "lat" \in DOMAIN analyzed_points[2]
    /\ "lat" \notin DOMAIN analyzed_points[3]
    /\ consolidated[1].clusters = <<>>

\* The geometries of the claim: GeoJSON without coordinates, a ring of fewer
\* than three vertices, a polygon without area.
DegenerateOrInvalid(geometry) ==
    \/ "exterior" \notin DOMAIN geometry
    \/ Len(geometry.exterior) < 3
    \/ ring_area2(geometry.exterior) = 0

\* C20 (grid failure semantics): for a degenerate or invalid polygon
\* generate_sample_grid returns the empty sequence at every spacing, and
\* add_facility stores the facility, with its centroid, without sample points.
C20_GridFailureSemantics ==
    (/\ response # <<>>
     /\ post_data.geometry # <<>>
     /\ DegenerateOrInvalid(post_data.geometry[1]))
        => /\ \A spacing \in valid_spacings \cup {100, 37} :
                 generate_sample_grid(post_data.geometry[1], spacing) = <<>>
           /\ (post_data.lat # <<>> /\ post_data.lng # <<>>)
                 => /\ response[1].success
                    /\ facility_data # <<>>
                    /\ LET stored == facility_data[Len(facility_data)]
                       IN /\ stored = response[1].facility
                          /\ "sample_points" \notin DOMAIN stored
                          /\ stored.Lat = post_data.lat[1]
                          /\ stored.Long = post_data.lng[1]
                          /\ stored.geometry = post_data.geometry[1]

\* A polygon without area was posted with a claimed area of 7 km2, so the grid
\* generator was called; the facility was stored after an earlier one.
C20_Witness ==
    /\ response # <<>>
    /\ response[1].success
    /\ post_data.geometry = <<DiagonalPolygon>>
    /\ post_data.areaKm2 = <<7000000>>
    /\ Len(facility_data) = 2
    /\ "sample_points" \notin DOMAIN facility_data[2]

\* ------------------------------------- claims: consolidation results

\* Input point i is the only point of its profile.
AloneInProfile(i) ==
    \A j \in DOMAIN analyzed_points :
        SameProfile(analyzed_points[i], analyzed_points[j]) => j = i

\* C21 (singleton handling): after a successful call, a profile group of
\* exactly one point has produced exactly one cluster, whose point_count is 1,
\* whose only member is that point and whose representative_point is the
\* point's own lat and lng.
C21_SingletonHandling ==
    Succeeded =>
        \A i \in DOMAIN analyzed_points :
            AloneInProfile(i) =>
                LET own == {c \in DOMAIN consolidated[1].clusters :
                              IsProfileOf(consolidated[1].clusters[c].risk_profile,
                                          analyzed_points[i])}
                IN /\ Cardinality(own) = 1
                   /\ \A c \in own :
                         LET cluster == consolidated[1].clusters[c]
                         IN /\ cluster.point_count = 1
                            /\ cluster.all_points = <<i>>
                            /\ cluster.representative_point.lat.num
                                  = analyzed_points[i].lat * cluster.representative_point.lat.den
                            /\ cluster.representative_point.lng.num
                                  = analyzed_points[i].lng * cluster.representative_point.lng.den

\* Three points, the second alone in its profile between two of another.
C21_Witness ==
    /\ Succeeded
    /\ Len(analyzed_points) = 3
    /\ AloneInProfile(2)
    /\ ~AloneInProfile(1)
    /\ analyzed_points[2].lng = 20

\* p (in tenths of a percent) is count / total x 100 rounded to one decimal:
\* no tenth is nearer to the exact quotient.
RoundedPercentage(p, count, total) ==
    LET diff == p * total - 1000 * count
    IN 2 * (IF diff < 0 THEN 0 - diff ELSE diff) <= total

\* C22 (summary statistics): a successful call reports total_points = number
\* of input points, cluster_count = number of returned clusters, and for each
\* of Low, Medium, High, Very High the number of input points that have that
\* tier under the first risk field of the first input point, with the
\* percentage count / total_points x 100 rounded to one decimal.
C22_SummaryStatistics ==
    (Succeeded /\ analyzed_points[1].risks # <<>>) =>
        LET stats == consolidated[1].statistics
            first_hazard == analyzed_points[1].risks[1][1]
        IN /\ stats.total_points = Len(analyzed_points)
           /\ stats.cluster_count = Len(consolidated[1].clusters)
           /\ DOMAIN stats.risk_distribution = {"Low", "Medium", "High", "Very High"}
           /\ \A level \in DOMAIN stats.risk_distribution :
                 LET entry == stats.risk_distribution[level]
                 IN /\ entry.count
                         = Cardinality({i \in DOMAIN analyzed_points :
                              <<first_hazard, level>> \in Range(analyzed_points[i].risks)})
                    /\ RoundedPercentage(entry.percentage, entry.count, stats.total_points)

\* Three points whose first hazard is Flood (the first point lists it first, the
\* others last): two are High (66.7 %) and one is Low (33.3 %).
C22_Witness ==
    /\ Succeeded
    /\ Len(analyzed_points) = 3
    /\ analyzed_points[1].risks[1][1] = "Flood_risk"
    /\ consolidated[1].statistics.risk_distribution["High"] = [count |-> 2, percentage |-> 667]
    /\ consolidated[1].statistics.risk_distribution["Low"] = [count |-> 1, percentage |-> 333]

\* C23 as stated (inputs are not mutated): no call changes its input: the
\* point records handed to consolidate_points_to_clusters have the same fields
\* and values after the call as before it (on success and on failure), the
\* polygon of generate_sample_grid is unchanged, and so are the sample points
\* of query_hazard_for_points.
C23_InputsNotMutated ==
    [][/\ analyzed_points' = analyzed_points
       /\ polygon_geometry' = polygon_geometry
       /\ \A r \in Requests : frames'[r].sample_points = frames[r].sample_points]_vars

\* ------------------------------------------------- claims: add_facility

\* add_facility answered with success; the facility it stored is the last one.
FacilityStored == response # <<>> /\ response[1].success
StoredFacility == facility_data[Len(facility_data)]

\* C24 as stated (area gate): a stored facility carries sample_points only
\* when it has a polygon whose area is at least 6 km2; a facility with a
\* smaller polygon or without geometry carries none.
C24_AreaGate ==
    (FacilityStored /\ "sample_points" \in DOMAIN StoredFacility)
        => /\ post_data.geometry # <<>>
           /\ ~DegenerateOrInvalid(post_data.geometry[1])
           /\ polygon_area(post_data.geometry[1]) >= 6000000

\* ----------------------------------------------------- claims: Asset

\* C25 (asset type invariant): the stored asset_type is 'polygon' exactly when
\* the stored polygon_geometry is non-empty and 'point' otherwise;
\* set_polygon_from_geojson returns True and stores the geometry exactly for a
\* geometry of type 'Polygon', and otherwise returns False and leaves
\* polygon_geometry as it was; and the geojson of a saved polygon asset is a
\* Feature with a Polygon geometry and the asset's name.
C25_AssetTypeInvariant ==
    /\ [](saved_asset # <<>> =>
            LET row == saved_asset[1]
            IN /\ row.asset_type \in {"polygon", "point"}
               /\ row.asset_type = "polygon"
                     <=> (row.polygon_geometry # <<>> /\ row.polygon_geometry[1] # <<>>))
    /\ [][(asset_op'.n # asset_op.n /\ asset_op'.op = "set_polygon_from_geojson") =>
             LET given == asset_op'.arg[1]
                 is_polygon == "type" \in DOMAIN given /\ given.type = "Polygon"
             IN /\ asset_op'.returned = <<is_polygon>>
                /\ is_polygon => asset'.polygon_geometry = <<given>>
                /\ ~is_polygon => asset'.polygon_geometry = asset.polygon_geometry]_vars
    /\ []((/\ asset_op.op = "geojson"
            /\ saved_asset = <<asset>>
            /\ asset.asset_type = "polygon")
              => /\ asset_op.returned[1].type = "Feature"
                 /\ asset_op.returned[1].geometry.type = "Polygon"
                 /\ asset_op.returned[1].properties.name = asset.name)

\* An asset created without geometry was given the triangle, saved (its
\* latitude became the centroid's) and its geojson was read.
C25_Witness ==
    /\ asset_op.n = 3
    /\ asset_op.op = "geojson"
    /\ asset_op.returned[1].geometry = TriangleGeometry
    /\ saved_asset = <<asset>>
    /\ asset.asset_type = "polygon"
    /\ asset.latitude = 12

\* ------------------------------------- claims: consolidation of uneven inputs

\* C26 as stated (uneven hazard coverage): for a non-empty input whose points
\* all have lat and lng, the result has clusters, every point is in one of them
\* and total_points is the number of points, whatever '_risk' keys each point
\* carries.
C26_UnevenCoverage ==
    (/\ consolidated # <<>>
     /\ analyzed_points # <<>>
     /\ \A i \in DOMAIN analyzed_points : {"lat", "lng"} \subseteq DOMAIN analyzed_points[i])
        => /\ consolidated[1].clusters # <<>>
           /\ consolidated[1].statistics # <<>>
           /\ consolidated[1].statistics.total_points = Len(analyzed_points)
           /\ \A i \in DOMAIN analyzed_points :
                 \E c \in DOMAIN consolidated[1].clusters :
                     i \in Members(consolidated[1].clusters[c])

\* C27 as stated (distribution completeness): in a successful result with a
\* first hazard, the counts of risk_distribution over its tiers add up to
\* total_points, also when some points are 'No Data' for that hazard.
C27_DistributionComplete ==
    (Succeeded /\ consolidated[1].statistics.risk_distribution # <<>>)
        => LET distribution == consolidated[1].statistics.risk_distribution
               tiers == <<"Low", "Medium", "High", "Very High", "No Data">>
               counted(tier) == IF tier \in DOMAIN distribution
                                THEN distribution[tier].count ELSE 0
           IN SumSeq([i \in DOMAIN tiers |-> counted(tiers[i])])
                  = consolidated[1].statistics.total_points

\* ------------------------------------ claims: the configured granular hazards

\* The '_value' and '_risk' a request has stored for a hazard on its i-th point.
StoredValue(r, i, name) == dict_get(frames[r].analyzed_points[i].values, name \o "_value")
StoredRisk(r, i, name) == dict_get(frames[r].analyzed_points[i].risks, name \o "_risk")

\* C28 as stated (hazard-specific thresholds for every configured hazard): a
\* value stored by query_all_hazards_for_points for a hazard of HAZARD_RASTERS
\* is classified with that hazard's table and direction: for 'Rainfall Induced
\* Landslide', a factor of safety, above 1.5 is Low and below 0.5 is Very High
\* (the reversed scale, where the default triple gives Very High and Low); for
\* the other hazards, with the thresholds of their name.
C28_ConfiguredHazardThresholds ==
    \A r \in Requests :
        frames[r].entry = "query_all_hazards_for_points" =>
            \A i \in DOMAIN frames[r].analyzed_points : \A name \in GranularHazardNames :
                (StoredValue(r, i, name) # <<>> /\ StoredValue(r, i, name)[1] # <<>>)
                    => LET v == StoredValue(r, i, name)[1][1]
                           tier == StoredRisk(r, i, name)
                       IN IF name = "Rainfall Induced Landslide"
                          THEN /\ v > 15 => tier = <<"Low">>
                               /\ v < 5 => tier = <<"Very High">>
                               /\ tier # <<>>
                          ELSE LET t == hazard_thresholds(name)
                               IN tier = <<IF name \in ReversedScaleHazards
                                           THEN above_chain(v, t.low, t.medium, t.high)
                                           ELSE below_chain(v, t.low, t.medium, t.high)>>

\* ------------------------------------------------- claims: the results page

\* The rows of the results table that are parents, and the sample-point rows
\* attached to a name.
ParentRows == {n \in DOMAIN results[1] : results[1][n].is_parent_facility}
PointRowsOf(name) ==
    SelectSeq(results[1], LAMBDA row : row.is_sample_point /\ row.parent_facility = name)

\* The facilities of the session that were given sample points.
SampledFacilities ==
    {k \in DOMAIN facility_data : "sample_points" \in DOMAIN facility_data[k]}

\* Two points of a grid of the given spacing that are next to each other
\* horizontally, vertically or diagonally.
AdjacentOnGrid(p, q, spacing) ==
    /\ p # q
    /\ Abs(p.lat - q.lat) \in {0, spacing}
    /\ Abs(p.lng - q.lng) \in {0, spacing}

C30_RowsAttributedToParent ==
    (results # <<>> /\ has_sample_points(facility_data)) =>
        /\ \A k \in DOMAIN facility_data :
              Cardinality({n \in ParentRows :
                              results[1][n].Facility = facility_data[k].Facility}) = 1
        /\ \A k \in DOMAIN facility_data :
              LET rows == PointRowsOf(facility_data[k].Facility)
                  own == IF k \in SampledFacilities THEN facility_data[k].sample_points
                         ELSE <<>>
              IN [n \in DOMAIN rows |-> [lat |-> rows[n].Lat, lng |-> rows[n].Long]]
                     = [n \in DOMAIN own |-> [lat |-> own[n].lat, lng |-> own[n].lng]]
        /\ \A n \in DOMAIN results[1] :
              results[1][n].is_sample_point
                  => \E k \in SampledFacilities :
                        results[1][n].parent_facility = facility_data[k].Facility

====
